---- MODULE Spec2Model ----
(***************************************************************************)
(* A model of the timing core of the Corrosion NES emulator: the APU frame *)
(* sequencer and dispatcher (src/src/apu/mod.rs) and the PPU dot engine    *)
(* and register file (src/src/ppu/mod.rs).                                 *)
(***************************************************************************)
EXTENDS Integers, Naturals, Sequences, FiniteSets, TLC

VARIABLES apu, apu_obs, ppu, ppu_obs, mem, mem_obs, ppu_rs, ppu_rs_obs

vars == <<apu, apu_obs, ppu, ppu_obs, mem, mem_obs, ppu_rs, ppu_rs_obs>>

(***************************************************************************)
(* Bounds of the model.                                                    *)
(***************************************************************************)
\* operations (calls made by the CPU) in one behaviour of SpecAPU
MaxOps == 3
\* operations in one behaviour of SpecScenario
MaxHist == 3
\* the smaller of the two clocks_needed() values of the sample buffer
ClocksNeededSmall == 5000
\* operations on the PPU in one behaviour of SpecUnits
MaxPpuOps == 3
\* operations on the PPU in one behaviour of SpecFrame
MaxFrameOps == 4
\* operations on the PPU in one behaviour of SpecRegs
MaxRegOps == 3

\* calls on the OAM registers in a run of SpecOam
MaxOamOps == 4

\* calls on the APU in a run of SpecChannels
MaxChOps == 4

\* calls on the PPU's memory or the cartridge in a run of SpecPalette, SpecVram
\* or SpecChr
MaxMemOps == 3

Min(x, y) == IF x <= y THEN x ELSE y

Max(x, y) == IF x >= y THEN x ELSE y

\* F applied to the value of v, with v evaluated once
Bind(v, F(_)) == CHOOSE r \in {F(x) : x \in {v}} : TRUE

(***************************************************************************)
(* APU: src/src/apu/mod.rs                                                 *)
(***************************************************************************)
NTSC_TICK_LENGTH_TABLE ==
    << <<7459, 7456, 7458, 7458, 7458, 0>>,
       <<1, 7458, 7456, 7458, 7458, 7452>> >>

\* NTSC_TICK_LENGTH_TABLE[mode][tick], zero-based as in the source
TickLength(mode, t) == NTSC_TICK_LENGTH_TABLE[mode + 1][t + 1]

MODE == 128

SUPPRESS_IRQ == 64

\* the cast `as u32`: cycle differences of the model stay far below 2^31 (the
\* largest number the checker represents), where the cast changes nothing
AsU32(x) == x

\* Frame::from_bits_truncate: keeps the two defined flag bits (7 and 6)
Frame_from_bits_truncate(val) == (val \div SUPPRESS_IRQ) * SUPPRESS_IRQ

\* Frame::contains
Frame_contains(f, flag) == (f \div flag) % 2 = 1

\* Frame::mode
Frame_mode(f) == IF Frame_contains(f, MODE) THEN 1 ELSE 0

JitterNone == [delay |-> FALSE, time |-> 0, val |-> 0]

JitterDelay(time, val) == [delay |-> TRUE, time |-> time, val |-> val]

Channels == {"pulse1", "pulse2", "triangle", "noise"}

\* Length counter of a channel (apu/components, not part of the sources at hand)
LengthNew == [counter |-> 0, halt |-> FALSE, enabled |-> FALSE]

Length_tick(l) ==
    IF ~l.halt /\ l.counter > 0 THEN [l EXCEPT !.counter = l.counter - 1] ELSE l

Length_active(l) == IF l.counter > 0 THEN 1 ELSE 0

\* The other operations of the length counter, the envelope and the timer
\* (apu/components, not part of the sources at hand), as the specification
\* describes them.  The bit of the register that halts the counter is the
\* argument of Length::new: 5 for the pulses and the noise, 7 for the triangle.
HaltBit(c) == IF c = "triangle" THEN 7 ELSE 5

LENGTH_TABLE ==
    <<10, 254, 20, 2, 40, 4, 80, 6, 160, 8, 60, 10, 14, 12, 26, 14,
      12, 16, 24, 18, 48, 20, 96, 22, 192, 24, 72, 26, 16, 28, 32, 30>>

Length_write_halt(l, bit, val) == [l EXCEPT !.halt = (val \div (2 ^ bit)) % 2 = 1]

Length_write_counter(l, val) == [l EXCEPT !.counter = LENGTH_TABLE[(val \div 8) + 1]]

Length_set_enable(l, enable) == [l EXCEPT !.enabled = enable]

Length_audible(l) == l.counter > 0 /\ l.enabled

\* Envelope: the start flag, the loop and constant-volume flags, the
\* volume/period n, the divider and the decay counter
Envelope_new ==
    [start |-> FALSE, loop |-> FALSE, constant |-> FALSE, n |-> 0,
     divider |-> 0, decay |-> 0]

Envelope_write(e, val) ==
    [e EXCEPT !.loop = (val \div 32) % 2 = 1,
              !.constant = (val \div 16) % 2 = 1,
              !.n = val % 16]

Envelope_tick(e) ==
    IF e.start THEN [e EXCEPT !.start = FALSE, !.decay = 15, !.divider = e.n]
    ELSE IF e.divider > 0 THEN [e EXCEPT !.divider = e.divider - 1]
    ELSE [e EXCEPT !.divider = e.n,
                   !.decay = IF e.decay > 0 THEN e.decay - 1
                             ELSE IF e.loop THEN 15 ELSE 0]

Envelope_volume(e) == IF e.constant THEN e.n ELSE e.decay

\* Timer: the period, the CPU clocks left to the next Clock event, and the
\* multiplier from timer ticks to CPU clocks (the argument of Timer::new)
Timer_new(multiplier) == [period |-> 0, remaining |-> 0, multiplier |-> multiplier]

Timer_write_low(t, val) == [t EXCEPT !.period = (t.period \div 256) * 256 + val]

Timer_write_high(t, val) == [t EXCEPT !.period = (val % 8) * 256 + (t.period % 256)]

Timer_add_period_shift(t, shift) == [t EXCEPT !.period = (t.period + shift) % 65536]

Timer_wavelen(t) == (t.period + 1) * t.multiplier

\* Timer::run, called until it yields no Clock: the number of Clock events in
\* [from_cyc, to_cyc), the first of them t.remaining clocks after from_cyc and
\* the others one wavelength apart
Timer_clocks(t, from_cyc, to_cyc) ==
    IF from_cyc + t.remaining < to_cyc
    THEN ((to_cyc - 1 - from_cyc - t.remaining) \div Timer_wavelen(t)) + 1
    ELSE 0

\* the cycle of the k-th Clock event of the interval (k >= 1)
Timer_clock_cyc(t, from_cyc, k) == from_cyc + t.remaining + (k - 1) * Timer_wavelen(t)

\* the timer after these calls of Timer::run
Timer_run(t, from_cyc, to_cyc) ==
    LET k == Timer_clocks(t, from_cyc, to_cyc)
    IN IF k = 0 THEN [t EXCEPT !.remaining = t.remaining - (to_cyc - from_cyc)]
       ELSE [t EXCEPT !.remaining =
                          Timer_wavelen(t) - (to_cyc - Timer_clock_cyc(t, from_cyc, k))]

\* PULSE_DUTY_CYCLES
PULSE_DUTY_CYCLES ==
    << <<0, 1, -1, 0, 0, 0, 0, 0>>,
       <<0, 1, 0, -1, 0, 0, 0, 0>>,
       <<0, 1, 0, 0, 0, -1, 0, 0>>,
       <<0, -1, 0, 1, 0, 0, 0, 0>> >>

\* Sweep::new
Sweep_new(is_pulse2) ==
    [enable |-> FALSE, period |-> 0, negate |-> FALSE, shift |-> 0,
     is_pulse2 |-> is_pulse2, divider |-> 0, reload |-> FALSE]

\* Sweep::write
Sweep_write(sw, val) ==
    [sw EXCEPT !.enable = (val \div 128) % 2 = 1,
               !.period = (val \div 16) % 8,
               !.negate = (val \div 8) % 2 = 1,
               !.shift = val % 8,
               !.reload = TRUE]

\* Sweep::period_shift
Sweep_period_shift(sw, timer) ==
    LET shift == timer.period \div (2 ^ sw.shift)
    IN IF sw.negate THEN (IF sw.is_pulse2 THEN (0 - shift) + 1 ELSE 0 - shift)
       ELSE shift

\* Sweep::audible
Sweep_audible(sw) == TRUE

\* Pulse::new; the length counter of the pulse is field length of the APU
Pulse_new(is_pulse2) ==
    [duty |-> 0, duty_index |-> 0, envelope |-> Envelope_new,
     sweep |-> Sweep_new(is_pulse2), timer |-> Timer_new(2),
     \* waveform: the amplitude deltas of the call in progress, <<amplitude, cycle>>
     deltas |-> <<>>]

\* Sweep::tick, on the sweep and the timer of a pulse
Sweep_tick(pl) ==
    IF ~pl.sweep.enable THEN pl
    ELSE LET divider == IF pl.sweep.divider > 0 THEN pl.sweep.divider - 1 ELSE 0
             clocked == divider = 0
             timer == IF clocked
                      THEN Timer_add_period_shift(pl.timer,
                                                  Sweep_period_shift(pl.sweep, pl.timer))
                      ELSE pl.timer
         IN [pl EXCEPT !.timer = timer,
                       !.sweep.divider = IF clocked \/ pl.sweep.reload
                                         THEN pl.sweep.period ELSE divider,
                       !.sweep.reload = FALSE]

\* the amplitude deltas of Clock events k1..k2 of a pulse's play, the duty
\* index being d before event k1
RECURSIVE PulseDeltas(_, _, _, _, _, _)
PulseDeltas(pl, from_cyc, volume, d, k1, k2) ==
    IF k1 > k2 THEN <<>>
    ELSE LET d1 == (d + 1) % 8
             step == PULSE_DUTY_CYCLES[pl.duty + 1][d1 + 1]
             cyc == Timer_clock_cyc(pl.timer, from_cyc, k1)
             here == IF step = -1 THEN << <<0, cyc>> >>
                     ELSE IF step = 1 THEN << <<volume, cyc>> >>
                     ELSE <<>>
         IN here \o PulseDeltas(pl, from_cyc, volume, d1, k1 + 1, k2)

\* the most Clock events of one play whose deltas are kept
MaxDeltas == 8

\* Pulse::play with the duty index left where it was
Pulse_play_KeepsIndex(pl, length, from_cyc, to_cyc) ==
    IF ~Sweep_audible(pl.sweep) \/ ~Length_audible(length)
    THEN [pl EXCEPT !.deltas = << <<0, from_cyc>> >>]
    ELSE LET k == Timer_clocks(pl.timer, from_cyc, to_cyc)
         IN [pl EXCEPT !.timer = Timer_run(pl.timer, from_cyc, to_cyc),
                       !.deltas = PulseDeltas(pl, from_cyc, Envelope_volume(pl.envelope),
                                              pl.duty_index, 1, Min(k, MaxDeltas))]

\* Pulse::play
Pulse_play(pl, length, from_cyc, to_cyc) ==
    IF ~Sweep_audible(pl.sweep) \/ ~Length_audible(length)
    THEN [pl EXCEPT !.deltas = << <<0, from_cyc>> >>]
    ELSE LET k == Timer_clocks(pl.timer, from_cyc, to_cyc)
         IN [pl EXCEPT !.duty_index = (pl.duty_index + k) % 8,
                       !.timer = Timer_run(pl.timer, from_cyc, to_cyc),
                       !.deltas = PulseDeltas(pl, from_cyc, Envelope_volume(pl.envelope),
                                              pl.duty_index, 1, Min(k, MaxDeltas))]

\* impl Writable for Pulse, but for the length counter
Pulse_write(pl, idx, val) ==
    CASE idx % 4 = 0 -> [pl EXCEPT !.duty = val \div 64,
                                  !.envelope = Envelope_write(pl.envelope, val)]
      [] idx % 4 = 1 -> [pl EXCEPT !.sweep = Sweep_write(pl.sweep, val)]
      [] idx % 4 = 2 -> [pl EXCEPT !.timer = Timer_write_low(pl.timer, val)]
      [] idx % 4 = 3 -> [pl EXCEPT !.timer = Timer_write_high(pl.timer, val)]

\* impl Writable for Pulse, Triangle and Noise: the length counter of channel c
Channel_write_length(l, c, idx, val) ==
    CASE idx % 4 = 0 -> Length_write_halt(l, HaltBit(c), val)
      [] idx % 4 = 3 -> Length_write_counter(l, val)
      [] OTHER -> l

\* DMC::new
DMC_new == [freq |-> 0, direct |-> 0, sample_addr |-> 0, sample_length |-> 0]

\* a DMC that keeps the byte written to its first register
DMC_write_Stores(d, idx, val) == IF idx % 4 = 0 THEN [d EXCEPT !.freq = val] ELSE d

\* impl Writable for DMC
DMC_write(d, idx, val) == d

Pulses == {"pulse1", "pulse2"}

\* IrqInterrupt::or (cpu module): IRQ if either side is IRQ
IrqOr(x, y) == IF x = "IRQ" \/ y = "IRQ" THEN "IRQ" ELSE "None"

\* One entry of the record of side effects of the call in progress.
Event(ev, cyc, x, y) == [ev |-> ev, cyc |-> cyc, x |-> x, y |-> y]

Log(a, e) == [a EXCEPT !.log = Append(a.log, e)]

\* APU::new; cn is what the sample buffer's clocks_needed() reports
APU_new(cn) ==
    [ frame |-> 0,
      length |-> [c \in Channels |-> LengthNew],
      pulse |-> [c \in Pulses |-> Pulse_new(c = "pulse2")],
      noise_envelope |-> Envelope_new,
      dmc |-> DMC_new,
      clocks_needed |-> cn,
      global_cyc |-> 0,
      tick |-> 0,
      next_tick_cyc |-> TickLength(0, 0),
      next_transfer_cyc |-> cn,
      last_frame_cyc |-> 0,
      irq_requested |-> FALSE,
      jitter |-> JitterNone,
      \* the local variable `interrupt` of the run_to in progress
      interrupt |-> "None",
      \* the value returned by the last tick / raise_irq
      irq_out |-> "None",
      \* bookkeeping: clocks since tick was last 0, the last completed frame,
      \* and the side effects of the current call in order
      env_clocks |-> 0,
      len_clocks |-> 0,
      frame_done |-> <<>>,
      log |-> <<>>,
      \* "none" while every call has completed; see read_status
      fault |-> "none" ]

\* APU::envelope_tick: the quarter-frame clock
envelope_tick(a) ==
    [a EXCEPT !.env_clocks = @ + 1,
              !.pulse = [c \in Pulses |->
                            [@[c] EXCEPT !.envelope = Envelope_tick(@)]],
              !.noise_envelope = Envelope_tick(@)]

\* APU::length_tick: the half-frame clock
length_tick(a) ==
    [a EXCEPT !.len_clocks = @ + 1,
              !.length = [c \in Channels |-> Length_tick(@[c])],
              !.pulse = [c \in Pulses |-> Sweep_tick(@[c])]]

\* raise_irq without the test of the suppress bit
raise_irq_Unconditional(a) == [a EXCEPT !.irq_requested = TRUE, !.irq_out = "IRQ"]

\* APU::raise_irq; the result is left in field irq_out
raise_irq(a) ==
    IF ~Frame_contains(a.frame, SUPPRESS_IRQ)
    THEN [a EXCEPT !.irq_requested = TRUE, !.irq_out = "IRQ"]
    ELSE [a EXCEPT !.irq_out = "None"]

\* the match of APU::tick with the IRQ raised one tick early as well
TickDispatch_IrqAt3(a, mode, t) ==
    IF mode = 0
    THEN CASE t = 1 -> envelope_tick(a)
           [] t = 2 -> length_tick(envelope_tick(a))
           [] t = 3 -> raise_irq(envelope_tick(a))
           [] t = 4 -> raise_irq(length_tick(envelope_tick([a EXCEPT !.tick = 0])))
           [] OTHER -> [a EXCEPT !.tick = 0]
    ELSE CASE t = 1 -> length_tick(envelope_tick(a))
           [] t = 2 -> envelope_tick(a)
           [] t = 3 -> length_tick(envelope_tick(a))
           [] t = 4 -> envelope_tick(a)
           [] OTHER -> [a EXCEPT !.tick = 0]

\* the match of APU::tick with tick 5 of mode 1 clocking like a half frame
TickDispatch_Tick5Clocks(a, mode, t) ==
    IF mode = 0
    THEN CASE t = 1 -> envelope_tick(a)
           [] t = 2 -> length_tick(envelope_tick(a))
           [] t = 3 -> envelope_tick(a)
           [] t = 4 -> raise_irq(length_tick(envelope_tick([a EXCEPT !.tick = 0])))
           [] OTHER -> [a EXCEPT !.tick = 0]
    ELSE CASE t = 1 -> length_tick(envelope_tick(a))
           [] t = 2 -> envelope_tick(a)
           [] t = 3 -> length_tick(envelope_tick(a))
           [] t = 4 -> envelope_tick(a)
           [] OTHER -> length_tick(envelope_tick([a EXCEPT !.tick = 0]))

\* the match of APU::tick with the IRQ raised at tick 4 of mode 1 too
TickDispatch_Mode1Irq(a, mode, t) ==
    IF mode = 0
    THEN CASE t = 1 -> envelope_tick(a)
           [] t = 2 -> length_tick(envelope_tick(a))
           [] t = 3 -> envelope_tick(a)
           [] t = 4 -> raise_irq(length_tick(envelope_tick([a EXCEPT !.tick = 0])))
           [] OTHER -> [a EXCEPT !.tick = 0]
    ELSE CASE t = 1 -> length_tick(envelope_tick(a))
           [] t = 2 -> envelope_tick(a)
           [] t = 3 -> length_tick(envelope_tick(a))
           [] t = 4 -> raise_irq(envelope_tick(a))
           [] OTHER -> [a EXCEPT !.tick = 0]

\* the match of APU::tick with the index not reset at tick 4 of mode 0
TickDispatch_NoResetAt4(a, mode, t) ==
    IF mode = 0
    THEN CASE t = 1 -> envelope_tick(a)
           [] t = 2 -> length_tick(envelope_tick(a))
           [] t = 3 -> envelope_tick(a)
           [] t = 4 -> raise_irq(length_tick(envelope_tick(a)))
           [] OTHER -> [a EXCEPT !.tick = 0]
    ELSE CASE t = 1 -> length_tick(envelope_tick(a))
           [] t = 2 -> envelope_tick(a)
           [] t = 3 -> length_tick(envelope_tick(a))
           [] t = 4 -> envelope_tick(a)
           [] OTHER -> [a EXCEPT !.tick = 0]

\* the match of APU::tick: what tick number t does in the given mode
TickDispatch(a, mode, t) ==
    IF mode = 0
    THEN CASE t = 1 -> envelope_tick(a)
           [] t = 2 -> length_tick(envelope_tick(a))
           [] t = 3 -> envelope_tick(a)
           [] t = 4 -> raise_irq(length_tick(envelope_tick([a EXCEPT !.tick = 0])))
           [] OTHER -> [a EXCEPT !.tick = 0]
    ELSE CASE t = 1 -> length_tick(envelope_tick(a))
           [] t = 2 -> envelope_tick(a)
           [] t = 3 -> length_tick(envelope_tick(a))
           [] t = 4 -> envelope_tick(a)
           [] t = 5 -> [a EXCEPT !.tick = 0]
           [] OTHER -> [a EXCEPT !.tick = 0]

\* bookkeeping at the end of a tick: when the sequencer index is back at 0 one
\* frame-sequencer frame is complete; its clock counts are kept in frame_done
FrameBookkeeping(a, mode) ==
    IF a.tick = 0
    THEN [a EXCEPT !.frame_done = <<[mode |-> mode, env |-> a.env_clocks,
                                     len |-> a.len_clocks]>>,
                   !.env_clocks = 0,
                   !.len_clocks = 0]
    ELSE a

\* the entry of the call's record for tick number t: a is the APU before the
\* tick and a2 the APU after it
TickEvent(a, a2, mode, t) ==
    Event("tick", a.global_cyc, t,
          [mode |-> mode,
           env |-> a2.env_clocks - a.env_clocks,
           len |-> a2.len_clocks - a.len_clocks,
           irq |-> a2.irq_out])

\* APU::tick with the length of the next interval read at the old tick index
tick_OldIndex(a) ==
    LET t == a.tick + 1
        mode == Frame_mode(a.frame)
    IN Bind(TickDispatch([a EXCEPT !.tick = t,
                                   !.next_tick_cyc =
                                       a.global_cyc + TickLength(mode, a.tick),
                                   !.irq_out = "None"], mode, t),
            LAMBDA a2 : Log(FrameBookkeeping(a2, mode), TickEvent(a, a2, mode, t)))

\* APU::tick: the 240Hz output of the frame sequencer's divider
tick(a) ==
    LET t == a.tick + 1
        mode == Frame_mode(a.frame)
    IN Bind(TickDispatch([a EXCEPT !.tick = t,
                                   !.next_tick_cyc = a.global_cyc + TickLength(mode, t),
                                   !.irq_out = "None"], mode, t),
            LAMBDA a2 : Log(FrameBookkeeping(a2, mode), TickEvent(a, a2, mode, t)))

\* APU::play: forwards the interval, relative to the last transfer and cut to
\* 32 bits, to the channels
play(a, from_cyc, to_cyc) ==
    LET from == AsU32(from_cyc - a.last_frame_cyc)
        to == AsU32(to_cyc - a.last_frame_cyc)
    IN Log([a EXCEPT !.pulse = [c \in Pulses |->
                                    Pulse_play(@[c], a.length[c], from, to)]],
           Event("play", from_cyc, from, to))

\* transfer without the new origin of the buffer's frame
transfer_KeepsOrigin(a) ==
    LET cpu_cyc == a.global_cyc
        cycles_since_last_frame == AsU32(cpu_cyc - a.last_frame_cyc)
        a1 == [a EXCEPT !.next_transfer_cyc = cpu_cyc + a.clocks_needed]
    IN Log(a1, Event("transfer", cpu_cyc, cycles_since_last_frame, 0))

\* APU::transfer: ends the buffer's frame and schedules the next transfer
transfer(a) ==
    LET cpu_cyc == a.global_cyc
        cycles_since_last_frame == AsU32(cpu_cyc - a.last_frame_cyc)
        a1 == [a EXCEPT !.last_frame_cyc = cpu_cyc,
                        !.next_transfer_cyc = cpu_cyc + a.clocks_needed]
    IN Log(a1, Event("transfer", cpu_cyc, cycles_since_last_frame, 0))

\* requested_run_cycle reporting the next transfer instead of the next tick
requested_run_cycle_Transfer(a) == a.next_transfer_cyc

\* APU::requested_run_cycle
requested_run_cycle(a) == a.next_tick_cyc

\* set_4017 clearing the IRQ flag whatever the suppress bit
set_4017_ClearsIrq(a, val) ==
    LET f == Frame_from_bits_truncate(val)
        a1 == [a EXCEPT !.frame = f,
                        !.irq_requested = FALSE,
                        !.tick = 0,
                        !.next_tick_cyc = a.global_cyc + TickLength(Frame_mode(f), 0),
                        !.env_clocks = 0,
                        !.len_clocks = 0]
    IN Log(a1, Event("commit", a.global_cyc, val, 0))

\* APU::set_4017: commits a write of val to the Frame register
set_4017(a, val) ==
    LET f == Frame_from_bits_truncate(val)
        a1 == [a EXCEPT !.frame = f,
                        !.irq_requested =
                            IF Frame_contains(f, SUPPRESS_IRQ) THEN FALSE
                            ELSE a.irq_requested,
                        !.tick = 0,
                        !.next_tick_cyc = a.global_cyc + TickLength(Frame_mode(f), 0),
                        !.env_clocks = 0,
                        !.len_clocks = 0]
    IN Log(a1, Event("commit", a.global_cyc, val, 0))

\* APU::run_to with the next stop chosen without regard to the target
RunAdvance_PastTarget(a, cpu_cycle) ==
    LET current_cycle == a.global_cyc
        s2 == Min(a.next_tick_cyc, a.next_transfer_cyc)
        next_step == IF a.jitter.delay THEN Min(s2, a.jitter.time) ELSE s2
    IN [play(a, current_cycle, next_step) EXCEPT !.global_cyc = next_step]

\* APU::run_to, the head of the loop body: the next stop, play up to it
RunAdvance(a, cpu_cycle) ==
    LET current_cycle == a.global_cyc
        s1 == Min(cpu_cycle, a.next_tick_cyc)
        s2 == Min(s1, a.next_transfer_cyc)
        next_step == IF a.jitter.delay THEN Min(s2, a.jitter.time) ELSE s2
    IN [play(a, current_cycle, next_step) EXCEPT !.global_cyc = next_step]

\* APU::run_to, the commit of a delayed $4017 write
RunJitter(a) ==
    IF a.jitter.delay /\ a.global_cyc = a.jitter.time
    THEN [set_4017(a, a.jitter.val) EXCEPT !.jitter = JitterNone]
    ELSE a

\* APU::run_to, the frame-sequencer tick
RunTick(a) ==
    IF a.global_cyc = a.next_tick_cyc
    THEN Bind(tick(a), LAMBDA t : [t EXCEPT !.interrupt = IrqOr(a.interrupt, t.irq_out)])
    ELSE a

\* APU::run_to, the buffer transfer
RunTransfer(a) ==
    IF a.global_cyc = a.next_transfer_cyc THEN transfer(a) ELSE a

\* one iteration of the loop of APU::run_to
RunStep(a, cpu_cycle) ==
    Bind(RunAdvance(a, cpu_cycle), LAMBDA a1 :
        Bind(RunJitter(a1), LAMBDA a2 :
            Bind(RunTick(a2), LAMBDA a3 : RunTransfer(a3))))

RECURSIVE RunLoop(_, _)
\* the loop of APU::run_to
RunLoop(a, cpu_cycle) ==
    IF a.global_cyc < cpu_cycle
    THEN Bind(RunStep(a, cpu_cycle), LAMBDA a1 : RunLoop(a1, cpu_cycle))
    ELSE a

\* APU::run_to; the returned interrupt is field interrupt of the result
run_to(a, cpu_cycle) ==
    Bind([a EXCEPT !.interrupt = "None"], LAMBDA a0 : RunLoop(a0, cpu_cycle))

\* the status byte of APU::read_status
StatusByte(a) ==
    Length_active(a.length["pulse1"])
    + 2 * Length_active(a.length["pulse2"])
    + 4 * Length_active(a.length["triangle"])
    + 8 * Length_active(a.length["noise"])
    + (IF a.irq_requested THEN 64 ELSE 0)

\* read_status without the clearing of the IRQ flag
ReadAndRun_NoClear(a1, cycle) ==
    Bind(run_to(Log(a1, Event("read", a1.global_cyc, StatusByte(a1), 0)), cycle),
         LAMBDA a3 : <<a3, IrqOr(a1.interrupt, a3.interrupt), StatusByte(a1)>>)

\* APU::read_status, from the read of the flags on: a1 is the APU after
\* run_to(cycle - 1)
ReadAndRun(a1, cycle) ==
    Bind(run_to(Log([a1 EXCEPT !.irq_requested = FALSE],
                    Event("read", a1.global_cyc, StatusByte(a1), 0)), cycle),
         LAMBDA a3 : <<a3, IrqOr(a1.interrupt, a3.interrupt), StatusByte(a1)>>)

\* The builds of the crate: `cycle - 1` on a u64 of 0 aborts the call when
\* overflow checks are compiled in (debug) and wraps to 2^64 - 1 when they are
\* not (release).
Builds == {"debug", "release"}

\* APU::read_status; the result is <<state, interrupt, status>>.  At cycle = 0
\* the debug build panics in `cycle - 1` and the release build enters
\* run_to(2^64 - 1), a loop of more than 2^50 iterations that the call does
\* not come back from: either way the call does not complete, which field
\* fault records, and the state is left as it was on entry.
read_status(a, cycle, build) ==
    IF cycle = 0
    THEN <<[a EXCEPT !.fault = IF build = "debug" THEN "panic" ELSE "wrapped"],
           "None", 0>>
    ELSE Bind(run_to(a, cycle - 1), LAMBDA a1 : ReadAndRun(a1, cycle))

\* the $4017 write committed at once on odd cycles too
write_4017_Immediate(a, val) == set_4017(a, val)

\* APU::write, register $4017
write_4017(a, val) ==
    IF a.global_cyc % 2 = 0
    THEN set_4017(a, val)
    ELSE [a EXCEPT !.jitter = JitterDelay(a.global_cyc + 1, val)]

\* APU::write, register $4015: the enable bits of the length counters
write_4015(a, val) ==
    [a EXCEPT !.length =
       [c \in Channels |->
           Length_set_enable(@[c],
               CASE c = "noise" -> (val \div 8) % 2 = 1
                 [] c = "triangle" -> (val \div 4) % 2 = 1
                 [] c = "pulse2" -> (val \div 2) % 2 = 1
                 [] c = "pulse1" -> val % 2 = 1)]]

\* APU::write, the registers of channel c, a pulse or not
write_channel(a, c, x, val) ==
    [a EXCEPT !.length[c] = Channel_write_length(@, c, x, val),
              !.pulse = IF c \in Pulses
                        THEN [@ EXCEPT ![c] = Pulse_write(@, x, val)] ELSE @,
              !.noise_envelope = IF c = "noise" /\ x % 4 = 0
                                 THEN Envelope_write(@, val) ELSE @]

\* APU::write: the register dispatch
write(a, idx, val) ==
    LET x == idx % 32
    IN CASE x \in 0..3 -> write_channel(a, "pulse1", x, val)
         [] x \in 4..7 -> write_channel(a, "pulse2", x, val)
         [] x \in 8..11 -> write_channel(a, "triangle", x, val)
         [] x \in 12..15 -> write_channel(a, "noise", x, val)
         [] x \in 16..19 -> [a EXCEPT !.dmc = DMC_write(@, x, val)]
         [] x = 21 -> write_4015(a, val)
         [] x = 23 -> write_4017(a, val)
         [] OTHER -> a

(***************************************************************************)
(* PPU: src/src/ppu/mod.rs                                                 *)
(***************************************************************************)
SCREEN_WIDTH == 256

SCREEN_HEIGHT == 240

NAMETABLE_WIDTH == 32

VBLANK == 128

\* x >> n and one bit of x
Shr(x, n) == x \div (2 ^ n)

BitSet(x, n) == Shr(x, n) % 2 = 1

\* a zero-initialised array, kept as the cells written so far
EmptyMem == <<>>

MemGet(m, i) == IF i \in DOMAIN m THEN m[i] ELSE 0

MemSet(m, i, v) == (i :> v) @@ m

\* Color::from_bits_truncate
Color_from_bits_truncate(val) == val % 64

\* PPUCtrl::nametable_addr
nametable_addr(ctrl) == (ctrl % 4) * 1024 + 8192

\* PPUCtrl::vram_addr_step
vram_addr_step(ctrl) == IF BitSet(ctrl, 2) THEN 32 ELSE 1

\* PPUCtrl::background_table
background_table(ctrl) == IF BitSet(ctrl, 4) THEN 4096 ELSE 0

\* the NMI generated whatever bit 7 of PPUCTRL
generate_vblank_nmi_Always(ctrl) == TRUE

\* PPUCtrl::generate_vblank_nmi
generate_vblank_nmi(ctrl) == BitSet(ctrl, 7)

\* PPUReg::scroll_x: a comparison with 8, as written in the source
scroll_x(p) == IF (p.ppuscroll \div 256) * 256 > 8 THEN 1 ELSE 0

\* PPUReg::scroll_y: a comparison with 0, as written in the source
scroll_y(p) == IF p.ppuscroll % 256 > 0 THEN 1 ELSE 0

\* PPU::new
PPU_new ==
    [ ppuctrl |-> 0, ppumask |-> 0, ppustat |-> 0, oamaddr |-> 0,
      ppuscroll |-> 0, ppuaddr |-> 0, dyn_latch |-> 0, address_latch |-> "High",
      oam |-> EmptyMem,
      \* ppu_mem: the cartridge's CHR memory, the nametable VRAM, the palette
      chr |-> EmptyMem, vram |-> EmptyMem, palette |-> EmptyMem,
      \* screen: the number of draw calls; screen_buffer: the number of pixel
      \* stores and the last one, <<index, color>>
      draws |-> 0, pixels |-> 0, last_pixel |-> <<>>,
      \* the position <<x, y>> at which the background was last sampled
      last_sample |-> <<>>,
      global_cyc |-> 0, cyc |-> 0, sl |-> 241, frame |-> 0,
      \* the local variable hit_nmi of the run_to in progress, the value
      \* returned by the last run_cycle, and whether an access aborted
      hit_nmi |-> FALSE, nmi_out |-> FALSE, panic |-> FALSE,
      \* the cartridge has CHR RAM (no CHR ROM)
      chr_ram |-> TRUE,
      \* the side effects of the call in progress: the dot of the last one,
      \* whether each came no earlier than the one before, and the number of
      \* vblank starts
      ev_last |-> 0, ev_ordered |-> TRUE, vblanks |-> 0,
      \* what the dots of the call in progress were: the dots (cyc = 1,
      \* sl = 241), those of them with frame > 0, and whether VBLANK was set
      \* after each of the latter
      vb_dots |-> 0, vb_live |-> 0, vb_stat |-> TRUE,
      \* the dots at which frame changed: how many, the last one, and the
      \* distance between the last two (0 before the second)
      wraps |-> 0, wrap_at |-> 0, wrap_gap |-> 0 ]

\* a side effect (pixel store, draw) at the present dot
PpuEvent(p) ==
    [p EXCEPT !.ev_ordered = p.ev_ordered /\ p.ev_last <= p.global_cyc,
              !.ev_last = p.global_cyc]

\* PPUMemory::read (ppu/mod.rs); -1 stands for the invalid_address abort
PPUMemory_read(p, idx) ==
    CASE idx \in 0..8191 -> MemGet(p.chr, idx % 8192)
      [] idx \in 8192..16127 -> MemGet(p.vram, idx % 2048)
      [] idx \in 16128..16383 ->
            LET x == idx % 32
            IN CASE x = 16 -> MemGet(p.palette, 0)
                 [] x = 20 -> MemGet(p.palette, 4)
                 [] x = 24 -> MemGet(p.palette, 8)
                 [] x = 28 -> MemGet(p.palette, 12)
                 [] OTHER -> MemGet(p.palette, x)
      [] OTHER -> -1

\* tick_cycle with scanline 261 counted before the wrap to -1
tick_cycle_LateWrap(p) ==
    IF p.cyc + 1 = 341
    THEN IF p.sl + 1 = 262
         THEN [p EXCEPT !.global_cyc = @ + 1, !.cyc = 0, !.sl = -1, !.frame = @ + 1]
         ELSE [p EXCEPT !.global_cyc = @ + 1, !.cyc = 0, !.sl = @ + 1]
    ELSE [p EXCEPT !.global_cyc = @ + 1, !.cyc = @ + 1]

\* PPU::tick_cycle
tick_cycle(p) ==
    IF p.cyc + 1 = 341
    THEN IF p.sl + 1 = 261
         THEN [p EXCEPT !.global_cyc = @ + 1, !.cyc = 0, !.sl = -1, !.frame = @ + 1]
         ELSE [p EXCEPT !.global_cyc = @ + 1, !.cyc = 0, !.sl = @ + 1]
    ELSE [p EXCEPT !.global_cyc = @ + 1, !.cyc = @ + 1]

\* PPU::get_nametable_addr
get_nametable_addr(p, px_x, px_y) ==
    nametable_addr(p.ppuctrl) + (px_y \div 8) * NAMETABLE_WIDTH + (px_x \div 8)

\* PPU::get_tile_addr: the fields or-ed together occupy different bits
get_tile_addr(tile_id, plane, fine_y_scroll, tile_table) ==
    fine_y_scroll + plane + tile_id * 16 + tile_table

\* PPU::read_tile_pattern
read_tile_pattern(p, tile_id, fine_y_scroll, tile_table) ==
    <<PPUMemory_read(p, get_tile_addr(tile_id, 0, fine_y_scroll, tile_table)),
      PPUMemory_read(p, get_tile_addr(tile_id, 8, fine_y_scroll, tile_table))>>

\* PPU::get_color_in_pattern
get_color_in_pattern(pattern, fine_x) ==
    LET shift == 7 - fine_x
    IN (Shr(pattern[1], shift) % 2) + 2 * (Shr(pattern[2], shift) % 2)

\* PPU::get_color_id
get_color_id(p, x, y) ==
    LET tile_idx == PPUMemory_read(p, get_nametable_addr(p, x, y))
        pattern == read_tile_pattern(p, tile_idx, y % 8, background_table(p.ppuctrl))
    IN get_color_in_pattern(pattern, x % 8)

\* PPU::get_attribute_addr
get_attribute_addr(p, x, y) ==
    nametable_addr(p.ppuctrl) + 960 + (y \div 32) * 8 + (x \div 32)

\* PPU::get_palette_from_attribute
get_palette_from_attribute(attr, x, y) ==
    LET at1 == IF BitSet(y, 4) THEN Shr(attr, 4) ELSE attr
        at2 == IF BitSet(x, 4) THEN Shr(at1, 2) ELSE at1
    IN at2 % 4

\* PPU::get_palette_id
get_palette_id(p, x, y) ==
    get_palette_from_attribute(PPUMemory_read(p, get_attribute_addr(p, x, y)), x, y)

\* PPU::read_palette
read_palette(p, palette_id, color_id) ==
    Color_from_bits_truncate(PPUMemory_read(p, 16128 + palette_id * 4 + color_id))

\* PPU::get_background_pixel, its first two lines: the position <<x, y>> at
\* which the background is sampled for the pixel of the screen
background_sample(p, screen_x, screen_y) ==
    <<screen_x + scroll_x(p), screen_y + scroll_y(p)>>

\* PPU::get_background_pixel
get_background_pixel(p, screen_x, screen_y) ==
    LET x == background_sample(p, screen_x, screen_y)[1]
        y == background_sample(p, screen_x, screen_y)[2]
    IN read_palette(p, get_palette_id(p, x, y), get_color_id(p, x, y))

\* PPU::get_pixel
get_pixel(p, x, y) == get_background_pixel(p, x, y)

\* PPU::visible_scanline
visible_scanline(p, pixel, scanline) ==
    IF pixel >= 256
    THEN p
    ELSE [PpuEvent(p) EXCEPT
              !.pixels = p.pixels + 1,
              !.last_pixel = <<scanline * SCREEN_WIDTH + pixel,
                               get_pixel(p, pixel, scanline)>>,
              !.last_sample = background_sample(p, pixel, scanline)]

\* prerender_scanline clearing VBLANK at dot 1, as the hardware does
prerender_scanline_ClearsVblank(p, c) ==
    IF c = 1 /\ BitSet(p.ppustat, 7) THEN [p EXCEPT !.ppustat = @ - VBLANK] ELSE p

\* PPU::prerender_scanline
prerender_scanline(p, c) == p

\* start_vblank raising the flag and the NMI in frame 0 as well
start_vblank_AnyFrame(p) ==
    LET p1 == [PpuEvent(p) EXCEPT !.draws = p.draws + 1, !.vblanks = p.vblanks + 1]
    IN [p1 EXCEPT !.ppustat = IF BitSet(p.ppustat, 7) THEN p.ppustat
                              ELSE p.ppustat + VBLANK,
                  !.nmi_out = generate_vblank_nmi(p.ppuctrl)]

\* start_vblank drawing only when frame > 0
start_vblank_DrawLive(p) ==
    IF p.frame > 0
    THEN [PpuEvent(p) EXCEPT !.draws = p.draws + 1, !.vblanks = p.vblanks + 1,
                             !.ppustat = IF BitSet(p.ppustat, 7) THEN p.ppustat
                                         ELSE p.ppustat + VBLANK,
                             !.nmi_out = generate_vblank_nmi(p.ppuctrl)]
    ELSE [p EXCEPT !.nmi_out = FALSE]

\* PPU::start_vblank; the result is left in field nmi_out
start_vblank(p) ==
    LET p1 == [PpuEvent(p) EXCEPT !.draws = p.draws + 1, !.vblanks = p.vblanks + 1]
    IN IF p.frame > 0
       THEN [p1 EXCEPT !.ppustat = IF BitSet(p.ppustat, 7) THEN p.ppustat
                                   ELSE p.ppustat + VBLANK,
                       !.nmi_out = generate_vblank_nmi(p.ppuctrl)]
       ELSE [p1 EXCEPT !.nmi_out = FALSE]

\* PPU::run_cycle; the result is left in field nmi_out
run_cycle(p) ==
    CASE p.sl = -1 -> [prerender_scanline(p, p.cyc) EXCEPT !.nmi_out = FALSE]
      [] p.sl \in 0..239 -> [visible_scanline(p, p.cyc, p.sl) EXCEPT !.nmi_out = FALSE]
      [] p.sl = 240 -> [p EXCEPT !.nmi_out = FALSE]
      [] p.cyc = 1 /\ p.sl = 241 -> start_vblank(p)
      [] OTHER -> [p EXCEPT !.nmi_out = FALSE]

\* the record of a dot: p before it, p2 after tick_cycle and run_cycle
Observe(p, p2) ==
    IF p2.cyc = 1 /\ p2.sl = 241
    THEN [p2 EXCEPT !.vb_dots = p.vb_dots + 1,
                    !.vb_live = IF p2.frame > 0 THEN p.vb_live + 1 ELSE p.vb_live,
                    !.vb_stat = p.vb_stat /\ (p2.frame > 0 => BitSet(p2.ppustat, 7))]
    ELSE IF p2.frame # p.frame
    THEN [p2 EXCEPT !.wraps = p.wraps + 1,
                    !.wrap_at = p2.global_cyc,
                    !.wrap_gap = IF p.wraps > 0 THEN p2.global_cyc - p.wrap_at ELSE 0]
    ELSE p2

\* one iteration of the loop of PPU::run_to
PpuDot(p) ==
    Bind(tick_cycle(p), LAMBDA p1 :
        Bind(run_cycle(p1), LAMBDA p2 :
            Observe(p, [p2 EXCEPT !.hit_nmi = p.hit_nmi \/ p2.nmi_out])))

RECURSIVE PpuRunChunk(_, _, _)
\* at most k iterations of the loop of PPU::run_to, which runs while
\* global_cyc < limit
PpuRunChunk(p, limit, k) ==
    IF ~(p.global_cyc < limit) THEN p
    ELSE IF k = 1 THEN PpuDot(p)
    ELSE Bind(PpuRunChunk(p, limit, k \div 2),
              LAMBDA q : PpuRunChunk(q, limit, k - k \div 2))

RECURSIVE PpuRunLoop(_, _)
\* the loop of PPU::run_to
PpuRunLoop(p, limit) ==
    IF p.global_cyc < limit
    THEN Bind(PpuRunChunk(p, limit, 65536), LAMBDA q : PpuRunLoop(q, limit))
    ELSE p

\* the PPU at the start of a call
PpuStartCall(p) ==
    [p EXCEPT !.hit_nmi = FALSE, !.nmi_out = FALSE, !.ev_last = p.global_cyc,
              !.ev_ordered = TRUE, !.vblanks = 0,
              !.vb_dots = 0, !.vb_live = 0, !.vb_stat = TRUE]

\* PPU::run_to with the loop body run once more after the loop
ppu_run_to_OneMoreDot(p, cpu_cycle) ==
    Bind(PpuStartCall(p), LAMBDA p0 :
        Bind(PpuRunLoop(p0, cpu_cycle * 3), LAMBDA p1 : PpuDot(p1)))

\* PPU::run_to; the result is field hit_nmi: TRUE for NMI, FALSE for Continue
ppu_run_to(p, cpu_cycle) ==
    Bind(PpuStartCall(p), LAMBDA p0 : PpuRunLoop(p0, cpu_cycle * 3))

StepResult(p) == IF p.hit_nmi THEN "NMI" ELSE "Continue"

\* PPU::incr_ppuaddr
incr_ppuaddr(p) ==
    [p EXCEPT !.ppuaddr = (p.ppuaddr + vram_addr_step(p.ppuctrl)) % 65536]

\* PPUMemory::write (ppu/mod.rs); an address outside the map, or a palette
\* index outside the 32-entry table, aborts
PPUMemory_write(p, idx, val) ==
    CASE idx \in 0..8191 ->
            IF p.chr_ram THEN [p EXCEPT !.chr = MemSet(p.chr, idx % 8192, val)] ELSE p
      [] idx \in 8192..16127 ->
            [p EXCEPT !.vram = MemSet(p.vram, (idx - 8192) % 2048, val)]
      [] idx \in 16128..16383 ->
            LET c == Color_from_bits_truncate(val)
                x == idx - 16128
            IN CASE x = 16 -> [p EXCEPT !.palette = MemSet(p.palette, 0, c)]
                 [] x = 20 -> [p EXCEPT !.palette = MemSet(p.palette, 4, c)]
                 [] x = 24 -> [p EXCEPT !.palette = MemSet(p.palette, 8, c)]
                 [] x = 28 -> [p EXCEPT !.palette = MemSet(p.palette, 12, c)]
                 [] x < 32 -> [p EXCEPT !.palette = MemSet(p.palette, x, c)]
                 [] OTHER -> [p EXCEPT !.panic = TRUE]
      [] OTHER -> [p EXCEPT !.panic = TRUE]

\* OAMAttr::from_bits_truncate: the flags are bits 7, 6, 5, 1 and 0
OAMAttr_from_bits_truncate(val) == (val \div 32) * 32 + (val % 4)

\* OAMEntry::write keeping all eight bits of the attribute byte
OAMEntry_write_Raw(p, idx, val) == [p EXCEPT !.oam = MemSet(p.oam, idx, val)]

\* OAMEntry::write: byte idx % 4 of the entry (y, tile, attr, x)
OAMEntry_write(p, idx, val) ==
    [p EXCEPT !.oam = MemSet(p.oam, idx,
                             IF idx % 4 = 2 THEN OAMAttr_from_bits_truncate(val)
                             ELSE val)]

\* OAMEntry::read
OAMEntry_read(p, idx) == MemGet(p.oam, idx)

\* write_addr_byte leaving the latch at Low after either half
write_addr_byte_NoFlipBack(latch, target, val) ==
    IF latch = "High"
    THEN <<"Low", (target % 256) + val * 256>>
    ELSE <<"Low", (target \div 256) * 256 + val>>

\* write_addr_byte: the half of target chosen by the latch, and the latch flipped
write_addr_byte(latch, target, val) ==
    IF latch = "High"
    THEN <<"Low", (target % 256) + val * 256>>
    ELSE <<"High", (target \div 256) * 256 + val>>

\* PPU::write (impl MemSegment for PPU)
ppu_write(p, idx, val) ==
    LET q == [p EXCEPT !.dyn_latch = val]
        r == idx % 8
    IN CASE r = 0 -> [q EXCEPT !.ppuctrl = val]
         [] r = 1 -> [q EXCEPT !.ppumask = val]
         [] r = 2 -> q
         [] r = 3 -> [q EXCEPT !.oamaddr = val]
         [] r = 4 -> [OAMEntry_write(q, q.oamaddr, val) EXCEPT
                          !.oamaddr = (q.oamaddr + 1) % 256]
         [] r = 5 -> LET w == write_addr_byte(q.address_latch, q.ppuscroll, val)
                     IN [q EXCEPT !.address_latch = w[1], !.ppuscroll = w[2]]
         [] r = 6 -> LET w == write_addr_byte(q.address_latch, q.ppuaddr, val)
                     IN [q EXCEPT !.address_latch = w[1], !.ppuaddr = w[2]]
         [] r = 7 -> LET m == PPUMemory_write(q, q.ppuaddr, val)
                     IN IF m.panic THEN [p EXCEPT !.panic = TRUE, !.dyn_latch = val]
                        ELSE incr_ppuaddr(m)

\* the read of $2002 leaving VBLANK as it was
read_ppustat_KeepVblank(p) ==
    <<[p EXCEPT !.address_latch = "High"], p.ppustat + (p.dyn_latch % 32)>>

\* PPU::read, register $2002: the flags (bits 7..5 only) or-ed with the low
\* five bits of the latch
read_ppustat(p) ==
    <<[p EXCEPT !.address_latch = "High",
                !.ppustat = IF BitSet(p.ppustat, 7)
                            THEN p.ppustat - VBLANK ELSE p.ppustat],
      p.ppustat + (p.dyn_latch % 32)>>

\* a read that returns 0 from every register
ppu_read_Zero(p, idx) == <<p, 0>>

\* PPU::read (impl MemSegment for PPU); the result is <<state, value>>
ppu_read(p, idx) ==
    LET r == idx % 8
    IN CASE r \in {0, 1, 3, 5, 6} -> <<p, p.dyn_latch>>
         [] r = 2 -> read_ppustat(p)
         [] r = 4 -> <<[p EXCEPT !.oamaddr = (p.oamaddr + 1) % 256],
                       OAMEntry_read(p, p.oamaddr)>>
         [] r = 7 -> LET v == PPUMemory_read(p, p.ppuaddr)
                     IN IF v = -1 THEN <<[p EXCEPT !.panic = TRUE], 0>>
                        ELSE <<incr_ppuaddr(p), v>>

(***************************************************************************)
(* The cartridge: src/src/mappers/mapper000.rs                             *)
(***************************************************************************)
\* the size of the CHR RAM of a cartridge without CHR ROM
ChrRamSize == 8192

\* A CHR ROM image (MapperParams.chr_rom): its length and its bytes, which are
\* all zero ("zero") or the ramp val % 0xFF of the mapper's tests ("ramp").
NoRom == [len |-> 0, fill |-> "zero"]

RomByte(rom, i) == IF rom.fill = "ramp" THEN i % 255 ELSE 0

ScreenModes == {"Horizontal", "Vertical", "OneScreenLow", "OneScreenHigh", "FourScreen"}

\* mappers::standard_mapping_tables: the base of each logical nametable in
\* the VRAM
standard_mapping_tables(mode) ==
    CASE mode = "Horizontal" -> <<0, 0, 1024, 1024>>
      [] mode = "Vertical" -> <<0, 1024, 0, 1024>>
      [] mode = "OneScreenLow" -> <<0, 0, 0, 0>>
      [] mode = "OneScreenHigh" -> <<1024, 1024, 1024, 1024>>
      [] mode = "FourScreen" -> <<0, 1024, 2048, 3072>>

\* mapper000::new: the CHR RAM exists only when there is no CHR ROM
Mapper000_new(chr_rom, mirroring_mode) ==
    [ chr_rom |-> chr_rom,
      chr_ram |-> EmptyMem,
      chr_ram_len |-> IF chr_rom.len = 0 THEN ChrRamSize ELSE 0,
      mode |-> standard_mapping_tables(mirroring_mode),
      mirroring_mode |-> mirroring_mode,
      panic |-> FALSE ]

\* Mapper000::chr_read; -1 stands for the abort of a remainder by zero
chr_read(c, idx) ==
    IF c.chr_rom.len = 0
    THEN IF c.chr_ram_len = 0 THEN -1 ELSE MemGet(c.chr_ram, idx % c.chr_ram_len)
    ELSE RomByte(c.chr_rom, idx % c.chr_rom.len)

\* chr_write without effect on either kind of cartridge
chr_write_Never(c, idx, val) == c

\* Mapper000::chr_write; field panic records the abort of a remainder by zero
chr_write(c, idx, val) ==
    IF c.chr_rom.len = 0
    THEN IF c.chr_ram_len = 0 THEN [c EXCEPT !.panic = TRUE]
         ELSE [c EXCEPT !.chr_ram = MemSet(c.chr_ram, idx % c.chr_ram_len, val)]
    ELSE c

\* Mapper000::get_mirroring_table
get_mirroring_table(c) == c.mode

(***************************************************************************)
(* The PPU's memory map: src/src/ppu/ppu_memory.rs                         *)
(***************************************************************************)
\* the length of PPUMemory.vram
VramLen == 3840

\* PPUMemory::new (ppu_memory.rs)
PPUMemory_new(cart) ==
    [cart |-> cart, vram |-> EmptyMem, palette |-> EmptyMem, panic |-> FALSE]

\* translate_vram_address reading the nametable number off bits 10..11 of the
\* address without the table
translate_vram_address_NoTable(m, idx) == (idx % 4096) % VramLen

\* PPUMemory::translate_vram_address
translate_vram_address(m, idx) ==
    LET i == idx % 4096
        nametable_num == i \div 1024
        idx_in_nametable == i % 1024
        table == get_mirroring_table(m.cart)
        translated == (table[nametable_num + 1] + idx_in_nametable) % 65536
    IN translated % VramLen

\* PPUMemory::read_bypass_palette
read_bypass_palette(m, idx) == MemGet(m.vram, translate_vram_address(m, idx))

\* PPUMemory::read (ppu_memory.rs); -1 stands for the invalid_address abort
ppu_memory_read(m, idx) ==
    CASE idx \in 0..8191 -> chr_read(m.cart, idx)
      [] idx \in 8192..16127 -> read_bypass_palette(m, idx)
      [] idx \in 16128..16383 -> MemGet(m.palette, idx % 32)
      [] OTHER -> -1

\* the palette write without the copy into the partner slot
palette_write_NoMirror(m, idx, val) ==
    [m EXCEPT !.palette = MemSet(m.palette, idx % 32, Color_from_bits_truncate(val))]

\* PPUMemory::write (ppu_memory.rs), palette region: the slots 0x00/04/08/0C
\* and 0x10/14/18/1C are written in pairs
palette_write(m, idx, val) ==
    LET c == Color_from_bits_truncate(val)
        x == idx % 32
        pal == IF x \in {16, 20, 24, 28} THEN MemSet(m.palette, x - 16, c)
               ELSE IF x \in {0, 4, 8, 12} THEN MemSet(m.palette, x + 16, c)
               ELSE m.palette
    IN [m EXCEPT !.palette = MemSet(pal, x, c)]

\* PPUMemory::write (ppu_memory.rs)
ppu_memory_write(m, idx, val) ==
    CASE idx \in 0..8191 ->
            [m EXCEPT !.cart = chr_write(m.cart, idx, val)]
      [] idx \in 8192..16127 ->
            [m EXCEPT !.vram = MemSet(m.vram, translate_vram_address(m, idx), val)]
      [] idx \in 16128..16383 -> palette_write(m, idx, val)
      [] OTHER -> [m EXCEPT !.panic = TRUE]

(***************************************************************************)
(* The earlier PPU: src/src/ppu.rs.  Its registers and its memory map, as   *)
(* its tests exercise them.                                                *)
(***************************************************************************)
\* PPU::new (ppu.rs); the cartridge of the tests has 0x1000 bytes of CHR ROM,
\* all zero
ppu_rs_new ==
    [ ppuctrl |-> 0, ppumask |-> 0, ppustat |-> 0, oamaddr |-> 0,
      ppuscroll |-> 0, ppuaddr |-> 0, dyn_latch |-> 0, address_latch |-> "First",
      oam |-> EmptyMem,
      cart |-> Mapper000_new([len |-> 4096, fill |-> "zero"], "Horizontal"),
      vram |-> EmptyMem, palette |-> EmptyMem,
      \* whether an access aborted
      panic |-> FALSE ]

\* PPUMemory::read (ppu.rs); -1 stands for the abort (invalid_address, or a
\* palette index outside the 32-entry table)
ppu_rs_memory_read(p, idx) ==
    CASE idx \in 0..8191 -> chr_read(p.cart, idx)
      [] idx \in 8192..16127 -> MemGet(p.vram, idx % 2048)
      [] idx \in 16128..16383 ->
            LET x == idx - 16128
            IN CASE x = 16 -> MemGet(p.palette, 0)
                 [] x = 20 -> MemGet(p.palette, 4)
                 [] x = 24 -> MemGet(p.palette, 8)
                 [] x = 28 -> MemGet(p.palette, 12)
                 [] x < 32 -> MemGet(p.palette, x)
                 [] OTHER -> -1
      [] OTHER -> -1

\* PPUMemory::write (ppu.rs)
ppu_rs_memory_write(p, idx, val) ==
    CASE idx \in 0..8191 -> [p EXCEPT !.cart = chr_write(@, idx, val)]
      [] idx \in 8192..16127 -> [p EXCEPT !.vram = MemSet(@, idx % 2048, val)]
      [] idx \in 16128..16383 ->
            LET x == idx - 16128
            IN CASE x = 16 -> [p EXCEPT !.palette = MemSet(@, 0, val)]
                 [] x = 20 -> [p EXCEPT !.palette = MemSet(@, 4, val)]
                 [] x = 24 -> [p EXCEPT !.palette = MemSet(@, 8, val)]
                 [] x = 28 -> [p EXCEPT !.palette = MemSet(@, 12, val)]
                 [] x < 32 -> [p EXCEPT !.palette = MemSet(@, x, val)]
                 [] OTHER -> [p EXCEPT !.panic = TRUE]
      [] OTHER -> [p EXCEPT !.panic = TRUE]

\* PPU::incr_ppuaddr (ppu.rs)
ppu_rs_incr_ppuaddr(p) ==
    [p EXCEPT !.ppuaddr = (p.ppuaddr + vram_addr_step(p.ppuctrl)) % 65536]

\* write_addr_byte with the latch flipped back to First after the second byte
ppu_rs_write_addr_byte_Flip(latch, target, val) ==
    IF latch = "First"
    THEN <<"Second", (target % 256) + val * 256>>
    ELSE <<"First", (target \div 256) * 256 + val>>

\* write_addr_byte (ppu.rs): the half of target chosen by the latch; the latch
\* is Second afterwards.  The result is <<latch, target>>.
ppu_rs_write_addr_byte(latch, target, val) ==
    IF latch = "First"
    THEN <<"Second", (target % 256) + val * 256>>
    ELSE <<"Second", (target \div 256) * 256 + val>>

\* PPU::write (impl MemSegment for PPU, ppu.rs)
ppu_rs_write(p, idx, val) ==
    LET q == [p EXCEPT !.dyn_latch = val]
        r == idx % 8
    IN CASE r = 0 -> [q EXCEPT !.ppuctrl = val]
         [] r = 1 -> [q EXCEPT !.ppumask = val]
         [] r = 2 -> q
         [] r = 3 -> [q EXCEPT !.oamaddr = val]
         [] r = 4 -> [q EXCEPT !.oam = MemSet(@, q.oamaddr, val),
                               !.oamaddr = (q.oamaddr + 1) % 256]
         [] r = 5 -> LET w == ppu_rs_write_addr_byte(q.address_latch, q.ppuscroll, val)
                     IN [q EXCEPT !.address_latch = w[1], !.ppuscroll = w[2]]
         [] r = 6 -> LET w == ppu_rs_write_addr_byte(q.address_latch, q.ppuaddr, val)
                     IN [q EXCEPT !.address_latch = w[1], !.ppuaddr = w[2]]
         [] r = 7 -> LET m == ppu_rs_memory_write(q, q.ppuaddr, val)
                     IN IF m.panic THEN m ELSE ppu_rs_incr_ppuaddr(m)

\* PPU::read (impl MemSegment for PPU, ppu.rs); the result is <<state, value>>
ppu_rs_read(p, idx) ==
    LET r == idx % 8
    IN CASE r \in {0, 1, 3, 5, 6} -> <<p, p.dyn_latch>>
         [] r = 2 -> <<[p EXCEPT !.address_latch = "First"],
                       p.ppustat + (p.dyn_latch % 32)>>
         [] r = 4 -> <<[p EXCEPT !.oamaddr = (p.oamaddr + 1) % 256],
                       MemGet(p.oam, p.oamaddr)>>
         [] r = 7 -> LET v == ppu_rs_memory_read(p, p.ppuaddr)
                     IN IF v = -1 THEN <<[p EXCEPT !.panic = TRUE], 0>>
                        ELSE <<ppu_rs_incr_ppuaddr(p), v>>

(***************************************************************************)
(* The CPU's calls on the APU.  apu_obs keeps what the last call was given *)
(* and returned, and the APU as it was before the call.                    *)
(***************************************************************************)
\* the APU at the start of a call: the record of side effects is empty and the
\* call's local values are unset
ClearLog(a) ==
    [a EXCEPT !.log = <<>>, !.interrupt = "None", !.irq_out = "None",
              !.pulse = [c \in Pulses |-> [@[c] EXCEPT !.deltas = <<>>]]]

ApuObs(op, arg, val, ret, status, keep) ==
    [op |-> op, arg |-> arg, val |-> val, ret |-> ret, status |-> status,
     pre |-> ClearLog(apu), prev_op |-> apu_obs.op, prev_arg |-> apu_obs.arg,
     nops |-> apu_obs.nops + 1,
     w4017 |-> apu_obs.w4017 \/ (op = "write" /\ arg % 32 = 23),
     hist |-> IF keep
              THEN Append(apu_obs.hist,
                          [op |-> op, arg |-> arg, val |-> val, ret |-> ret,
                           status |-> status])
              ELSE apu_obs.hist]

DoRunTo(n, keep) ==
    \E r \in {run_to(ClearLog(apu), n)} :
       /\ apu' = r
       /\ apu_obs' = ApuObs("run_to", n, 0, r.interrupt, 0, keep)
       /\ UNCHANGED <<ppu, ppu_obs, mem, mem_obs, ppu_rs, ppu_rs_obs>>

DoReadStatus(c, keep) ==
    \E build \in Builds : \E r \in {read_status(ClearLog(apu), c, build)} :
       /\ apu' = r[1]
       /\ apu_obs' = ApuObs("read_status", c, 0, r[2], r[3], keep)
       /\ UNCHANGED <<ppu, ppu_obs, mem, mem_obs, ppu_rs, ppu_rs_obs>>

DoWrite(idx, val, keep) ==
    /\ apu' = write(ClearLog(apu), idx, val)
    /\ apu_obs' = ApuObs("write", idx, val, "None", 0, keep)
    /\ UNCHANGED <<ppu, ppu_obs, mem, mem_obs, ppu_rs, ppu_rs_obs>>

ClocksChoices == {ClocksNeededSmall, TickLength(0, 0)}

ApuObsInit ==
    [op |-> "new", arg |-> 0, val |-> 0, ret |-> "None", status |-> 0,
     pre |-> APU_new(ClocksNeededSmall), prev_op |-> "new", prev_arg |-> 0,
     nops |-> 0, w4017 |-> FALSE, hist |-> <<>>]

PpuObsInit ==
    [op |-> "new", arg |-> 0, val |-> 0, ret |-> 0, pre |-> PPU_new,
     prev_op |-> "new", prev_arg |-> 0, nops |-> 0, hist |-> <<>>]

\* the PPUMemory of a cartridge without CHR ROM, horizontally mirrored, and no
\* call on it yet
MemNew == PPUMemory_new(Mapper000_new(NoRom, "Horizontal"))

MemObsInit ==
    [op |-> "new", arg |-> 0, val |-> 0, ret |-> 0, pre |-> MemNew,
     prev_op |-> "new", prev_arg |-> 0, prev_val |-> 0, nops |-> 0]

MemIdle == mem = MemNew /\ mem_obs = MemObsInit

\* the PPU of ppu.rs before any call; since_reset counts the writes of $2005
\* and $2006 made since the address latch was last set to First
PpuRsObsInit ==
    [op |-> "new", arg |-> 0, val |-> 0, ret |-> 0, pre |-> ppu_rs_new,
     nops |-> 0, since_reset |-> 0, pre_since |-> 0]

PpuIdle ==
    /\ ppu = PPU_new /\ ppu_obs = PpuObsInit
    /\ ppu_rs = ppu_rs_new /\ ppu_rs_obs = PpuRsObsInit

InitAPU ==
    /\ \E cn \in ClocksChoices : apu = APU_new(cn)
    /\ apu_obs = ApuObsInit
    /\ PpuIdle
    /\ MemIdle

\* the cycles the CPU of SpecAPU runs the APU to: around the present cycle and
\* the next tick, and one 4-step or 5-step frame ahead
ApuTargets ==
    {apu.global_cyc - 1, apu.global_cyc, apu.global_cyc + 1,
     apu.next_tick_cyc - 1, apu.next_tick_cyc, apu.next_tick_cyc + 1,
     apu.global_cyc + 29830, apu.global_cyc + 37282} \ {-1}

ApuWriteVals == {0, 64, 128, 192}

ApuRegisters == {16407, 16406, 16404}

\* a call that did not complete is the last one
Running == apu.fault = "none"

ApuRunTo ==
    \E n \in ApuTargets : Running /\ apu_obs.nops < MaxOps /\ DoRunTo(n, FALSE)

ApuReadStatus ==
    \E c \in ApuTargets : Running /\ apu_obs.nops < MaxOps /\ DoReadStatus(c, FALSE)

ApuWrite ==
    \E idx \in ApuRegisters, val \in ApuWriteVals :
        Running /\ apu_obs.nops < MaxOps /\ DoWrite(idx, val, FALSE)

NextAPU == ApuRunTo \/ ApuReadStatus \/ ApuWrite

SpecAPU == InitAPU /\ [][NextAPU]_vars

\* The scenarios of the specification's section 8, step by step.
ScenarioCycles == {101, 102, 29830, 29831, 29832, 59661}

ScenarioVals == {64, 128}

ScRunTo == \E n \in ScenarioCycles : Len(apu_obs.hist) < MaxHist /\ DoRunTo(n, TRUE)

ScReadStatus ==
    \E c \in ScenarioCycles : Len(apu_obs.hist) < MaxHist /\ DoReadStatus(c, TRUE)

ScWrite ==
    \E val \in ScenarioVals : Len(apu_obs.hist) < MaxHist /\ DoWrite(16407, val, TRUE)

NextScenario == ScRunTo \/ ScReadStatus \/ ScWrite

SpecScenario == InitAPU /\ [][NextScenario]_vars

(***************************************************************************)
(* The CPU's calls on the PPU.  ppu_obs keeps what the last call was given *)
(* and returned, and the PPU as it was before the call.                    *)
(***************************************************************************)
PpuObs(op, arg, val, ret, keep) ==
    [op |-> op, arg |-> arg, val |-> val, ret |-> ret,
     pre |-> PpuStartCall(ppu), prev_op |-> ppu_obs.op, prev_arg |-> ppu_obs.arg,
     nops |-> ppu_obs.nops + 1,
     hist |-> IF keep
              THEN Append(ppu_obs.hist, [op |-> op, arg |-> arg, val |-> val, ret |-> ret])
              ELSE ppu_obs.hist]

DoPpuRunTo(n, keep) ==
    \E r \in {ppu_run_to(ppu, n)} :
       /\ ppu' = r
       /\ ppu_obs' = PpuObs("run_to", n, 0, StepResult(r), keep)
       /\ UNCHANGED <<apu, apu_obs, mem, mem_obs, ppu_rs, ppu_rs_obs>>

DoPpuWrite(idx, val, keep) ==
    /\ ppu' = ppu_write(PpuStartCall(ppu), idx, val)
    /\ ppu_obs' = PpuObs("write", idx, val, 0, keep)
    /\ UNCHANGED <<apu, apu_obs, mem, mem_obs, ppu_rs, ppu_rs_obs>>

DoPpuRead(idx, keep) ==
    \E r \in {ppu_read(PpuStartCall(ppu), idx)} :
       /\ ppu' = r[1]
       /\ ppu_obs' = PpuObs("read", idx, 0, r[2], keep)
       /\ UNCHANGED <<apu, apu_obs, mem, mem_obs, ppu_rs, ppu_rs_obs>>

\* the CPU cycle the PPU has been run to
PpuCycle == ppu.global_cyc \div 3

\* The CPU of SpecUnits runs the PPU to cycles around the present one and one
\* scanline ahead and, as its first call, into the first visible scanline.
UnitPpuTargets ==
    ({PpuCycle - 1, PpuCycle, PpuCycle + 1, PpuCycle + 2, PpuCycle + 114} \ {-1})
        \cup (IF ppu_obs.nops = 0 THEN {2400} ELSE {})

UnitPpuRunTo ==
    \E n \in UnitPpuTargets :
        apu_obs.nops = 0 /\ ppu_obs.nops < MaxPpuOps /\ ~ppu.panic /\ DoPpuRunTo(n, FALSE)

UnitPpuWrite ==
    \E val \in {0, 128} :
        apu_obs.nops = 0 /\ ppu_obs.nops < MaxPpuOps /\ ~ppu.panic
            /\ DoPpuWrite(8192, val, FALSE)

UnitPpuRead ==
    apu_obs.nops = 0 /\ ppu_obs.nops < MaxPpuOps /\ ~ppu.panic /\ DoPpuRead(8194, FALSE)

UnitApu == ppu_obs.nops = 0 /\ NextAPU

\* Either unit is driven through its calls; the two share no state.
NextUnits == UnitApu \/ UnitPpuRunTo \/ UnitPpuWrite \/ UnitPpuRead

SpecUnits == InitAPU /\ [][NextUnits]_vars

\* The first frames of the PPU, call by call.  The CPU may first enable the
\* vblank NMI; its first run_to goes to CPU cycle 27394 (dot 82182 = 241 * 341
\* + 1 of a PPU counted from scanline 0) or to cycle 29781 (dot 89343, the
\* second time the PPU of the code is at cyc = 1, sl = 241); from 27394 it
\* goes to cycle 29780, and from there on one cycle further or past the second
\* change of frame (dot 96162, cycle 32054).
FrameTargets ==
    IF ppu.global_cyc = 0 THEN {27394, 29781}
    ELSE IF PpuCycle < 29780 THEN {29780}
    ELSE {32054, PpuCycle + 1}

FrRunTo ==
    \E n \in FrameTargets :
        Len(ppu_obs.hist) < MaxFrameOps /\ ~ppu.panic /\ DoPpuRunTo(n, TRUE)

FrWrite ==
    /\ Len(ppu_obs.hist) < MaxFrameOps /\ ~ppu.panic
    /\ ppu_obs.hist = <<>> \/ ppu.global_cyc > 0
    /\ DoPpuWrite(8192, 128, TRUE)

FrRead ==
    /\ Len(ppu_obs.hist) < MaxFrameOps /\ ~ppu.panic
    /\ ppu.global_cyc > 0
    /\ DoPpuRead(8194, TRUE)

NextFrame == FrRunTo \/ FrWrite \/ FrRead

InitFrame ==
    /\ apu = APU_new(ClocksNeededSmall)
    /\ apu_obs = ApuObsInit
    /\ PpuIdle
    /\ MemIdle

SpecFrame == InitFrame /\ [][NextFrame]_vars

\* The register file of the PPU.  The CPU writes and reads the eight registers
\* and some of their mirrors; the bytes written are one that sets bit 2 of
\* PPUCTRL (0x04), the high byte of the palette addresses (0x3F) and the high
\* byte of the first address above the PPU's memory map (0x40).  As its first
\* call it may run the PPU over the vblank start of frame 1, which sets VBLANK.
RegWrites ==
    {<<8192, 4>>, <<8193, 63>>, <<8194, 63>>, <<8195, 63>>, <<8196, 63>>,
     <<8197, 63>>, <<8197, 4>>, <<8198, 63>>, <<8198, 64>>, <<8199, 63>>,
     <<8202, 4>>, <<16382, 4>>}

RegReads == 8192..8199 \cup {16376}

RegWrite ==
    \E w \in RegWrites :
        ppu_obs.nops < MaxRegOps /\ ~ppu.panic /\ DoPpuWrite(w[1], w[2], FALSE)

RegRead ==
    \E idx \in RegReads :
        ppu_obs.nops < MaxRegOps /\ ~ppu.panic /\ DoPpuRead(idx, FALSE)

RegRunFrame ==
    ppu_obs.nops = 0 /\ ppu_obs.nops < MaxRegOps /\ DoPpuRunTo(29781, FALSE)

NextRegs == RegWrite \/ RegRead \/ RegRunFrame

SpecRegs == InitFrame /\ [][NextRegs]_vars

\* The OAM port.  The CPU sets OAMADDR ($2003) to an attribute byte (2), to the
\* last byte of the table (255) or back to 0, writes OAMDATA ($2004, or its
\* mirror $200C) with a byte whose set bits are exactly the unimplemented ones
\* of an attribute byte (0x1C) or with 0xFF, and reads OAMDATA.
OamAddrs == {0, 2, 255}

OamVals == {28, 255}

OamSetAddr ==
    \E a \in OamAddrs :
        Len(ppu_obs.hist) < MaxOamOps /\ ~ppu.panic /\ DoPpuWrite(8195, a, TRUE)

OamWrite ==
    \E idx \in {8196, 8204} : \E v \in OamVals :
        Len(ppu_obs.hist) < MaxOamOps /\ ~ppu.panic /\ DoPpuWrite(idx, v, TRUE)

OamRead ==
    Len(ppu_obs.hist) < MaxOamOps /\ ~ppu.panic /\ DoPpuRead(8196, TRUE)

NextOam == OamSetAddr \/ OamWrite \/ OamRead

SpecOam == InitFrame /\ [][NextOam]_vars

\* The channel registers.  The CPU enables the length counters ($4015), sets
\* duty 2, halt and a constant volume of 15 on pulse 1 ($4000), loads the
\* length counter of either pulse ($4003, $4007: table entry 1, timer high 0),
\* writes the DMC registers $4010 and $4013 and the registers $4014 and $4016,
\* selects the 5-step mode ($4017), and runs the APU 11 cycles on or over the
\* first IRQ of the 4-step mode.
ChannelWrites ==
    {<<16405, 15>>, <<16384, 191>>, <<16387, 8>>, <<16391, 8>>,
     <<16400, 255>>, <<16403, 255>>, <<16404, 255>>, <<16406, 255>>,
     <<16407, 128>>}

ChannelTargets == {apu.global_cyc + 11, 29832}

ChWrite ==
    \E w \in ChannelWrites :
        apu_obs.nops < MaxChOps /\ Running /\ DoWrite(w[1], w[2], FALSE)

ChRunTo ==
    \E n \in ChannelTargets :
        apu_obs.nops < MaxChOps /\ Running /\ DoRunTo(n, FALSE)

NextChannels == ChWrite \/ ChRunTo

SpecChannels == InitFrame /\ [][NextChannels]_vars

\* The frame register.  The CPU runs the APU one cycle on, to the first IRQ of
\* the 4-step mode (cycle 29831, odd) or one cycle past it (even), and two
\* 5-step frames and two cycles ahead; it writes $4017 with each of the four
\* combinations of bits 7 and 6, the other six bits set.
MaxSeqOps == 4

SeqWriteVals == {63, 127, 191, 255}

\* two periods of the 5-step sequence and two cycles
SeqLongRun == 74566

SeqTargets == {apu.global_cyc + 1, 29831, 29832, apu.global_cyc + SeqLongRun}

SeqWrite ==
    \E val \in SeqWriteVals :
        apu_obs.nops < MaxSeqOps /\ Running /\ DoWrite(16407, val, FALSE)

SeqRunTo ==
    \E n \in SeqTargets :
        apu_obs.nops < MaxSeqOps /\ Running /\ DoRunTo(n, FALSE)

NextSequencer == SeqWrite \/ SeqRunTo

SpecSequencer == InitFrame /\ [][NextSequencer]_vars

\* The visible scanlines.  The CPU first runs the PPU to the first dot of
\* scanline 0 (dot 21 * 341 = 7161, CPU cycle 2387) or into scanline 0 (cycle
\* 2400: cyc = 39); from there it runs it one cycle further or to dot 256 of
\* scanline 1 (dot 7758, cycle 2586), writes PPUSCROLL with 0, 5 and 8, and
\* reads PPUSTATUS, which sets the address latch to High.
MaxPxOps == 4

PxTargets == IF ppu.global_cyc = 0 THEN {2387, 2400} ELSE {PpuCycle + 1, 2586}

PxScrolls == {0, 5, 8}

PxRunTo ==
    \E n \in PxTargets :
        ppu_obs.nops < MaxPxOps /\ ~ppu.panic /\ DoPpuRunTo(n, FALSE)

PxWriteScroll ==
    \E val \in PxScrolls :
        ppu_obs.nops < MaxPxOps /\ ~ppu.panic /\ ppu.global_cyc > 0
            /\ DoPpuWrite(8197, val, FALSE)

PxReadStat ==
    ppu_obs.nops < MaxPxOps /\ ~ppu.panic /\ ppu.global_cyc > 0
        /\ DoPpuRead(8194, FALSE)

NextPixels == PxRunTo \/ PxWriteScroll \/ PxReadStat

SpecPixels == InitFrame /\ [][NextPixels]_vars

\* The pulse channels.  The CPU enables the length counter of pulse 1 ($4015),
\* loads it ($4003: table entry 1, timer high 0), selects one of the four
\* duties with a constant volume of 15 ($4000), sets the timer's low byte to 1
\* ($4002: a Clock event every 4 cycles instead of every 2), and runs the APU
\* 5 or 17 cycles on.  Pulse 2 is left disabled.
MaxPulseOps == 5

PulseWrites ==
    {<<16405, 1>>, <<16387, 8>>, <<16386, 1>>,
     <<16384, 63>>, <<16384, 127>>, <<16384, 191>>, <<16384, 255>>}

PulseTargets == {apu.global_cyc + 5, apu.global_cyc + 17}

PulseWrite ==
    \E w \in PulseWrites :
        apu_obs.nops < MaxPulseOps /\ Running /\ DoWrite(w[1], w[2], FALSE)

PulseRunTo ==
    \E n \in PulseTargets :
        apu_obs.nops < MaxPulseOps /\ Running /\ DoRunTo(n, FALSE)

NextPulse == PulseWrite \/ PulseRunTo

SpecPulse == InitFrame /\ [][NextPulse]_vars

\* The VBLANK flag.  The CPU first runs the PPU over the vblank start of frame
\* 1 (CPU cycle 29781), which sets the flag; from there it runs it one cycle
\* further or over the pre-render scanline into scanline 0 of the next frame
\* (dot 96162 + 341 + 1, cycle 32168), writes each of the eight registers and
\* reads each of them, $2002 and its mirror $200A among them.
MaxVbOps == 3

VbTargets == IF ppu.global_cyc = 0 THEN {29781} ELSE {PpuCycle + 1, 32168}

VbWrites ==
    {<<8192, 128>>, <<8193, 255>>, <<8194, 0>>, <<8195, 1>>, <<8196, 0>>,
     <<8197, 0>>, <<8198, 32>>, <<8199, 0>>}

VbReads == 8192..8199 \cup {8202}

VbRunTo ==
    \E n \in VbTargets :
        ppu_obs.nops < MaxVbOps /\ ~ppu.panic /\ DoPpuRunTo(n, FALSE)

VbWrite ==
    \E w \in VbWrites :
        ppu_obs.nops < MaxVbOps /\ ~ppu.panic /\ ppu.global_cyc > 0
            /\ DoPpuWrite(w[1], w[2], FALSE)

VbRead ==
    \E idx \in VbReads :
        ppu_obs.nops < MaxVbOps /\ ~ppu.panic /\ ppu.global_cyc > 0
            /\ DoPpuRead(idx, FALSE)

NextVblank == VbRunTo \/ VbWrite \/ VbRead

SpecVblank == InitFrame /\ [][NextVblank]_vars

(***************************************************************************)
(* Calls on the PPUMemory of ppu_memory.rs and on the cartridge.  mem_obs  *)
(* keeps what the last call was given and returned, the call before it and *)
(* the memory as it was before the call.                                   *)
(***************************************************************************)
MemObs(op, arg, val, ret) ==
    [op |-> op, arg |-> arg, val |-> val, ret |-> ret, pre |-> mem,
     prev_op |-> mem_obs.op, prev_arg |-> mem_obs.arg, prev_val |-> mem_obs.val,
     nops |-> mem_obs.nops + 1]

\* neither the memory nor the cartridge has aborted
MemRunning == ~mem.panic /\ ~mem.cart.panic

DoMemWrite(idx, val) ==
    /\ mem' = ppu_memory_write(mem, idx, val)
    /\ mem_obs' = MemObs("write", idx, val, 0)
    /\ UNCHANGED <<apu, apu_obs, ppu, ppu_obs, ppu_rs, ppu_rs_obs>>

DoMemRead(idx) ==
    \E r \in {ppu_memory_read(mem, idx)} :
       /\ mem' = IF r = -1 THEN [mem EXCEPT !.panic = TRUE] ELSE mem
       /\ mem_obs' = MemObs("read", idx, 0, r)
       /\ UNCHANGED <<apu, apu_obs, ppu, ppu_obs, ppu_rs, ppu_rs_obs>>

DoChrWrite(idx, val) ==
    /\ mem' = [mem EXCEPT !.cart = chr_write(mem.cart, idx, val)]
    /\ mem_obs' = MemObs("chr_write", idx, val, 0)
    /\ UNCHANGED <<apu, apu_obs, ppu, ppu_obs, ppu_rs, ppu_rs_obs>>

DoChrRead(idx) ==
    \E r \in {chr_read(mem.cart, idx)} :
       /\ mem' = IF r = -1 THEN [mem EXCEPT !.cart.panic = TRUE] ELSE mem
       /\ mem_obs' = MemObs("chr_read", idx, 0, r)
       /\ UNCHANGED <<apu, apu_obs, ppu, ppu_obs, ppu_rs, ppu_rs_obs>>

\* the APU and the PPU are not called
UnitsIdle ==
    /\ apu = APU_new(ClocksNeededSmall)
    /\ apu_obs = ApuObsInit
    /\ PpuIdle

\* The palette.  The CPU writes and reads the eight slots that are paired, one
\* that is not (0x3F01) and a mirror of the region above 0x3F1F (0x3FF0, slot
\* 0x10); the bytes have bits above the six of a color (0xD4) or not (0x0C).
PaletteAddrs ==
    {16128, 16132, 16136, 16140, 16144, 16148, 16152, 16156, 16129, 16368}

PaletteVals == {12, 212}

PalWrite ==
    \E a \in PaletteAddrs : \E v \in PaletteVals :
        mem_obs.nops < MaxMemOps /\ MemRunning /\ DoMemWrite(a, v)

PalRead ==
    \E a \in PaletteAddrs :
        mem_obs.nops < MaxMemOps /\ MemRunning /\ DoMemRead(a)

NextPalette == PalWrite \/ PalRead

InitPalette == UnitsIdle /\ MemIdle

SpecPalette == InitPalette /\ [][NextPalette]_vars

\* The nametables.  The cartridge has any of the five mirroring modes.  The
\* CPU writes and reads each of the four logical nametables at offsets 0 and
\* 0x300 (the first offset at which table[3] + offset of a four-screen
\* cartridge reaches the length of the VRAM), and the mirror 0x3000 of 0x2000.
NametableOffsets == {0, 768}

to_nametable_idx(idx, tbl) == 8192 + (1024 * tbl) + idx

VramAddrs ==
    {to_nametable_idx(i, t) : i \in NametableOffsets, t \in 0..3} \cup {12288}

VramVals == {255, 97}

VramWrite ==
    \E a \in VramAddrs : \E v \in VramVals :
        mem_obs.nops < MaxMemOps /\ MemRunning /\ DoMemWrite(a, v)

VramRead ==
    \E a \in VramAddrs :
        mem_obs.nops < MaxMemOps /\ MemRunning /\ DoMemRead(a)

NextVram == VramWrite \/ VramRead

InitVram ==
    /\ UnitsIdle
    /\ \E mode \in ScreenModes : mem = PPUMemory_new(Mapper000_new(NoRom, mode))
    /\ mem_obs = MemObsInit

SpecVram == InitVram /\ [][NextVram]_vars

\* The cartridge's CHR memory.  The cartridge has no CHR ROM (and so 8 KiB of
\* CHR RAM), 8 KiB of CHR ROM holding the ramp, or 4 KiB of CHR ROM holding
\* zeros.  The mapper is called with addresses of the pattern tables, with
\* addresses 0x2000 above two of them, with the addresses of the mapper's
\* tests and with the last 16-bit address; the PPU's memory is called with a
\* pattern-table address, which it hands to the cartridge.
ChrRoms == {NoRom, [len |-> 8192, fill |-> "ramp"], [len |-> 4096, fill |-> "zero"]}

ChrAddrs == {0, 5650, 8192, 13842, 33041, 49425, 65535}

ChrVals == {15, 255}

ChrWrite ==
    \E a \in ChrAddrs : \E v \in ChrVals :
        mem_obs.nops < MaxMemOps /\ MemRunning /\ DoChrWrite(a, v)

ChrRead ==
    \E a \in ChrAddrs :
        mem_obs.nops < MaxMemOps /\ MemRunning /\ DoChrRead(a)

ChrMemWrite ==
    \E v \in ChrVals :
        mem_obs.nops < MaxMemOps /\ MemRunning /\ DoMemWrite(5650, v)

ChrMemRead ==
    mem_obs.nops < MaxMemOps /\ MemRunning /\ DoMemRead(5650)

NextChr == ChrWrite \/ ChrRead \/ ChrMemWrite \/ ChrMemRead

InitChr ==
    /\ UnitsIdle
    /\ \E rom \in ChrRoms : mem = PPUMemory_new(Mapper000_new(rom, "Horizontal"))
    /\ mem_obs = MemObsInit

SpecChr == InitChr /\ [][NextChr]_vars

(***************************************************************************)
(* Calls on the PPU of ppu.rs.  ppu_rs_obs keeps what the last call was    *)
(* given and returned and the PPU as it was before the call.               *)
(***************************************************************************)
\* calls on the PPU of ppu.rs in a run of SpecPpuRs
MaxPpuRsOps == 5

PpuRsObs(op, arg, val, ret, since) ==
    [op |-> op, arg |-> arg, val |-> val, ret |-> ret, pre |-> ppu_rs,
     nops |-> ppu_rs_obs.nops + 1, since_reset |-> since,
     pre_since |-> ppu_rs_obs.since_reset]

DoPpuRsWrite(idx, val) ==
    /\ ppu_rs' = ppu_rs_write(ppu_rs, idx, val)
    /\ ppu_rs_obs' = PpuRsObs("write", idx, val, 0,
                              IF idx % 8 \in {5, 6} THEN ppu_rs_obs.since_reset + 1
                              ELSE ppu_rs_obs.since_reset)
    /\ UNCHANGED <<apu, apu_obs, ppu, ppu_obs, mem, mem_obs>>

DoPpuRsRead(idx) ==
    \E r \in {ppu_rs_read(ppu_rs, idx)} :
       /\ ppu_rs' = r[1]
       /\ ppu_rs_obs' = PpuRsObs("read", idx, 0, r[2],
                                 IF idx % 8 = 2 THEN 0 ELSE ppu_rs_obs.since_reset)
       /\ UNCHANGED <<apu, apu_obs, ppu, ppu_obs, mem, mem_obs>>

\* the assignment `ppu.reg.address_latch = AddrByte::First` of the tests
DoPpuRsResetLatch ==
    /\ ppu_rs' = [ppu_rs EXCEPT !.address_latch = "First"]
    /\ ppu_rs_obs' = PpuRsObs("reset", 0, 0, 0, 0)
    /\ UNCHANGED <<apu, apu_obs, ppu, ppu_obs, mem, mem_obs>>

\* The CPU writes the bytes of the tests (0xDE, 0xAD, 0xED) to PPUSCROLL and
\* PPUADDR or a mirror of it, sets the step of 32 in PPUCTRL, writes PPUDATA,
\* and reads PPUSTATUS and PPUDATA.
PpuRsWrites ==
    {<<8197, 222>>, <<8197, 173>>, <<8197, 237>>,
     <<8198, 222>>, <<8198, 173>>, <<8198, 237>>, <<8206, 173>>,
     <<8192, 4>>, <<8199, 173>>}

PpuRsReads == {8194, 8199}

PpuRsWrite ==
    \E w \in PpuRsWrites :
        ppu_rs_obs.nops < MaxPpuRsOps /\ ~ppu_rs.panic /\ DoPpuRsWrite(w[1], w[2])

PpuRsRead ==
    \E idx \in PpuRsReads :
        ppu_rs_obs.nops < MaxPpuRsOps /\ ~ppu_rs.panic /\ DoPpuRsRead(idx)

PpuRsResetLatch ==
    ppu_rs_obs.nops < MaxPpuRsOps /\ ~ppu_rs.panic /\ DoPpuRsResetLatch

NextPpuRs == PpuRsWrite \/ PpuRsRead \/ PpuRsResetLatch

SpecPpuRs == InitFrame /\ [][NextPpuRs]_vars

(***************************************************************************)
(* Properties of the APU.                                                  *)
(***************************************************************************)
H == apu_obs.hist

IsOp(i, op, arg) == Len(H) >= i /\ H[i].op = op /\ H[i].arg = arg

IsWrite(i, val) == IsOp(i, "write", 16407) /\ H[i].val = val

Bit6(b) == (b \div 64) % 2 = 1

Suppressed(f) == Frame_contains(f, SUPPRESS_IRQ)

IsCall == apu_obs.op \in {"run_to", "read_status"}

LogIdx == 1..Len(apu.log)

TickEvents == {i \in LogIdx : apu.log[i].ev = "tick"}

IrqEvents == {i \in TickEvents : apu.log[i].y.irq = "IRQ"}

\* a write with the suppress bit set was committed during the last operation
SuppressCommits == {i \in LogIdx : apu.log[i].ev = "commit" /\ Suppressed(apu.log[i].x)}

ReadEvents == {i \in LogIdx : apu.log[i].ev = "read"}

\* the cycle of the first tick 4 of a fresh APU and the length of a 4-step frame
FirstIrqCycle == TickLength(0, 0) + TickLength(0, 1) + TickLength(0, 2) + TickLength(0, 3)

Mode0Period == TickLength(0, 1) + TickLength(0, 2) + TickLength(0, 3) + TickLength(0, 4)

\* the number of tick-4 cycles of a fresh, unwritten APU in 1..c
IrqCyclesUpTo(c) ==
    IF c < FirstIrqCycle THEN 0 ELSE (c - FirstIrqCycle) \div Mode0Period + 1

\* C1 as stated: on a fresh APU run_to(29830) returns IRQ.
C1_Original ==
    (Len(H) = 1 /\ IsOp(1, "run_to", 29830)) => apu_obs.ret = "IRQ"

\* C1, amended: on a fresh APU (Frame 0x00, no register write) the fourth tick
\* falls on cycle 7459+7456+7458+7458 = 29831: run_to(29831) returns IRQ and sets
\* irq_requested, while run_to(29830) returns None and leaves it clear.
C1_FirstIrqAt29831 ==
    /\ FirstIrqCycle = 29831
    /\ (Len(H) = 1 /\ IsOp(1, "run_to", 29831)) =>
           (apu_obs.ret = "IRQ" /\ apu.irq_requested)
    /\ (Len(H) = 1 /\ IsOp(1, "run_to", 29830)) =>
           (apu_obs.ret = "None" /\ ~apu.irq_requested)

C1_Witness ==
    Len(H) = 1 /\ IsOp(1, "run_to", 29831) /\ apu_obs.ret = "IRQ" /\ IrqEvents # {}

\* C2 as stated: after run_to(29830), read_status(29831) returns bit 6 set and a
\* read_status(29831) right after it returns bit 6 clear.
C2_Original ==
    (IsOp(1, "run_to", 29830) /\ IsOp(2, "read_status", 29831)) =>
        /\ Bit6(H[2].status)
        /\ IsOp(3, "read_status", 29831) => ~Bit6(H[3].status)

\* C2, amended: after run_to(29831), read_status(29832) returns bit 6 set and a
\* read_status(29832) right after it returns bit 6 clear; after run_to(29830),
\* read_status(29831) returns bit 6 clear together with the interrupt IRQ (the
\* flag is read at cycle 29830 and raised at 29831), and a read_status(29831)
\* right after it returns bit 6 set.
C2_StatusAfterIrq ==
    /\ (IsOp(1, "run_to", 29831) /\ IsOp(2, "read_status", 29832)) =>
           /\ Bit6(H[2].status)
           /\ IsOp(3, "read_status", 29832) => ~Bit6(H[3].status)
    /\ (IsOp(1, "run_to", 29830) /\ IsOp(2, "read_status", 29831)) =>
           /\ ~Bit6(H[2].status) /\ H[2].ret = "IRQ"
           /\ IsOp(3, "read_status", 29831) => Bit6(H[3].status)

C2_Witness ==
    /\ IsOp(1, "run_to", 29831) /\ IsOp(2, "read_status", 29832)
    /\ IsOp(3, "read_status", 29832)
    /\ Bit6(H[2].status) /\ ~Bit6(H[3].status)

\* C3: in mode 0 with SUPPRESS_IRQ clear and no $4017 write, a tick raises
\* IRQ exactly when it is tick 4, so once per frame-sequencer frame, and run_to(n)
\* returns IRQ if and only if a tick-4 cycle lies in (previous global_cyc, n].
C3_IrqOncePerFrame ==
    ~apu_obs.w4017 =>
        /\ apu.frame = 0
        /\ \A i \in TickEvents : (apu.log[i].y.irq = "IRQ") <=> (apu.log[i].x = 4)
        /\ \A i \in TickEvents :
               apu.log[i].x = 4 <=>
                   IrqCyclesUpTo(apu.log[i].cyc) > IrqCyclesUpTo(apu.log[i].cyc - 1)
        /\ IsCall =>
               Cardinality(IrqEvents) =
                   IrqCyclesUpTo(apu.global_cyc) - IrqCyclesUpTo(apu_obs.pre.global_cyc)
        /\ apu_obs.op = "run_to" =>
               (apu_obs.ret = "IRQ" <=>
                    IrqCyclesUpTo(apu_obs.arg) > IrqCyclesUpTo(apu_obs.pre.global_cyc))

\* a run_to over two tick-4 cycles of the unwritten APU
C3_Witness ==
    /\ ~apu_obs.w4017 /\ apu_obs.op = "run_to" /\ apu_obs.ret = "IRQ"
    /\ apu_obs.pre.global_cyc > FirstIrqCycle
    /\ Cardinality(TickEvents) >= 4

\* C4: while the Frame register has SUPPRESS_IRQ set, irq_requested is false,
\* and a run_to or read_status over which the bit stays set returns no IRQ and
\* no status bit 6.
C4_Suppression ==
    /\ Suppressed(apu.frame) => ~apu.irq_requested
    /\ (IsCall /\ Suppressed(apu_obs.pre.frame) /\ Suppressed(apu.frame)) =>
           /\ apu_obs.ret = "None"
           /\ ~Bit6(apu_obs.status)
           /\ IrqEvents = {}

\* a tick 4 of mode 0 passes with the suppress bit set
C4_Witness ==
    /\ Suppressed(apu.frame) /\ Suppressed(apu_obs.pre.frame) /\ IsCall
    /\ \E i \in TickEvents : apu.log[i].x = 4 /\ apu.log[i].y.mode = 0

\* C5: a $4017 write at an odd global_cyc leaves Frame, tick and next_tick_cyc
\* as they were and is held as Delay(global_cyc + 1, value); a run_to that stops
\* at the write cycle still sees the old Frame, and run_to(write cycle + 1)
\* commits the value: after run_to(101), write 0x80, run_to(101) the mode is 0
\* and after run_to(102) instead it is 1.
C5_OddCycleJitter ==
    /\ (apu_obs.op = "write" /\ apu_obs.arg % 32 = 23
            /\ apu_obs.pre.global_cyc % 2 = 1) =>
           /\ apu.frame = apu_obs.pre.frame
           /\ apu.tick = apu_obs.pre.tick
           /\ apu.next_tick_cyc = apu_obs.pre.next_tick_cyc
           /\ apu.jitter = JitterDelay(apu_obs.pre.global_cyc + 1, apu_obs.val)
    /\ (apu_obs.op = "run_to" /\ apu_obs.pre.jitter.delay
            /\ apu_obs.arg <= apu_obs.pre.global_cyc) =>
           /\ apu.frame = apu_obs.pre.frame
           /\ apu.tick = apu_obs.pre.tick
           /\ apu.next_tick_cyc = apu_obs.pre.next_tick_cyc
           /\ apu.jitter = apu_obs.pre.jitter
    /\ (apu_obs.op = "run_to" /\ apu_obs.pre.jitter.delay
            /\ apu_obs.arg = apu_obs.pre.global_cyc + 1) =>
           /\ apu.frame = Frame_from_bits_truncate(apu_obs.pre.jitter.val)
           /\ apu.tick = 0
           /\ apu.next_tick_cyc = apu_obs.arg + TickLength(Frame_mode(apu.frame), 0)
           /\ apu.jitter = JitterNone
    /\ (Len(H) = 3 /\ IsOp(1, "run_to", 101) /\ IsWrite(2, 128)
            /\ IsOp(3, "run_to", 101)) =>
           (Frame_mode(apu.frame) = 0 /\ apu.global_cyc = 101)
    /\ (Len(H) = 3 /\ IsOp(1, "run_to", 101) /\ IsWrite(2, 128)
            /\ IsOp(3, "run_to", 102)) =>
           (Frame_mode(apu.frame) = 1 /\ apu.global_cyc = 102
                /\ apu.next_tick_cyc = 103)

C5_Witness ==
    /\ Len(H) = 3 /\ IsOp(1, "run_to", 101) /\ IsWrite(2, 128) /\ IsOp(3, "run_to", 102)
    /\ Frame_mode(apu_obs.pre.frame) = 0 /\ Frame_mode(apu.frame) = 1

\* C6 as stated, its last part: a read_status returning bit 6 set clears the
\* flag, so a second read_status right after it returns bit 6 clear.
C6_Original ==
    \A i \in 1..(Len(H) - 1) :
        (H[i].op = "read_status" /\ Bit6(H[i].status)
            /\ H[i + 1].op = "read_status" /\ H[i + 1].arg = H[i].arg) =>
            ~Bit6(H[i + 1].status)

\* C6, amended: irq_requested, once set, stays set over run_to calls and register
\* writes that commit no $4017 value with bit 6, until read_status; a read_status
\* called with the flag set returns bit 6 set unless such a commit precedes its
\* read point; the read leaves the flag clear unless the frame sequencer raises
\* an IRQ in the final run to the read's own cycle, and a second read_status with
\* the same cycle returns bit 6 set exactly in that case.
C6_IrqFlagUntilRead ==
    /\ (apu_obs.pre.irq_requested /\ apu_obs.op \in {"run_to", "write"}
            /\ SuppressCommits = {}) => apu.irq_requested
    /\ (apu_obs.op = "read_status" /\ apu_obs.pre.irq_requested
            /\ \A i \in SuppressCommits : \E j \in ReadEvents : j < i) =>
           Bit6(apu_obs.status)
    /\ apu_obs.op = "read_status" =>
           (apu.irq_requested <=>
                \E i \in IrqEvents : \E j \in ReadEvents :
                    j < i /\ apu.log[i].cyc = apu_obs.arg)
    /\ (Len(H) >= 2 /\ H[Len(H)].op = "read_status"
            /\ H[Len(H) - 1].op = "read_status"
            /\ H[Len(H) - 1].arg = H[Len(H)].arg) =>
           /\ Bit6(apu_obs.status) <=> apu_obs.pre.irq_requested
           /\ Bit6(apu_obs.status) => H[Len(H) - 1].ret = "IRQ"
           /\ ~apu.irq_requested

\* the flag survives a $4017 write without bit 6 and is then read
C6_Witness ==
    /\ Len(H) = 3 /\ IsOp(1, "run_to", 29831) /\ IsWrite(2, 128)
    /\ IsOp(3, "read_status", 29832)
    /\ Bit6(apu_obs.status) /\ ~apu.irq_requested /\ apu.frame = MODE

\* C7: a completed frame-sequencer frame (tick index 0 back to 0 with no $4017
\* commit in between) clocked the envelopes 4 times and the length counters and
\* sweeps 2 times, in mode 0 and in mode 1; tick 5 of mode 1 clocks nothing.
C7_ClocksPerFrame ==
    /\ apu.frame_done # <<>> =>
           (apu.frame_done[1].env = 4 /\ apu.frame_done[1].len = 2)
    /\ \A i \in TickEvents :
           (apu.log[i].y.mode = 1 /\ apu.log[i].x = 5) =>
               (apu.log[i].y.env = 0 /\ apu.log[i].y.len = 0)
    /\ \A i \in TickEvents :
           apu.log[i].x \in 1..4 =>
               (apu.log[i].y.env = 1 /\ apu.log[i].y.len \in {0, 1})

\* a 5-step frame completes after a 4-step frame did
C7_Witness ==
    /\ apu.frame_done # <<>> /\ apu.frame_done[1].mode = 1
    /\ apu_obs.pre.frame_done # <<>> /\ apu_obs.pre.frame_done[1].mode = 0

\* C8: a tick in 5-step mode raises no IRQ, and a run_to or read_status over
\* which the mode bit stays set returns no IRQ and does not set irq_requested,
\* whatever the suppress bit.
C8_NoIrqInMode1 ==
    /\ \A i \in TickEvents : apu.log[i].y.mode = 1 => apu.log[i].y.irq = "None"
    /\ (IsCall /\ Frame_mode(apu_obs.pre.frame) = 1 /\ Frame_mode(apu.frame) = 1) =>
           /\ apu_obs.ret = "None"
           /\ apu.irq_requested => apu_obs.pre.irq_requested

\* a whole 5-step frame runs with the suppress bit clear
C8_Witness ==
    /\ apu.frame = MODE /\ apu_obs.pre.frame = MODE /\ apu_obs.op = "run_to"
    /\ \E i \in TickEvents : apu.log[i].x = 4
    /\ \E i \in TickEvents : apu.log[i].x = 5

(***************************************************************************)
(* Properties of run_to in both units.                                     *)
(***************************************************************************)
\* the last two calls on the APU were run_to(a) and then run_to(b) with b <= a
ApuRepeatedRunTo ==
    apu_obs.op = "run_to" /\ apu_obs.prev_op = "run_to"
        /\ apu_obs.arg <= apu_obs.prev_arg

\* the last two calls on the PPU were run_to(a) and then run_to(b) with b <= a
PpuRepeatedRunTo ==
    ppu_obs.op = "run_to" /\ ppu_obs.prev_op = "run_to"
        /\ ppu_obs.arg <= ppu_obs.prev_arg

\* the events of the last call on the APU of the kinds the order is about
OrderedKinds == {"tick", "transfer", "commit"}

\* C9: after run_to(a), a call run_to(b) with b <= a changes no state of the
\* unit (no tick, no transfer, no play, no pixel, no draw, no clock) and
\* returns no interrupt: IrqInterrupt::None from the APU, StepResult::Continue
\* from the PPU.
C9_RunToIdempotent ==
    /\ ApuRepeatedRunTo =>
          /\ apu = apu_obs.pre
          /\ apu.log = <<>>
          /\ apu_obs.ret = "None"
    /\ PpuRepeatedRunTo =>
          /\ ppu = ppu_obs.pre
          /\ ppu_obs.ret = "Continue"

\* the APU case of C9, with two ticks of the frame sequencer behind it
C9_WitnessAPU ==
    ApuRepeatedRunTo /\ apu_obs.prev_arg > 0 /\ apu.global_cyc > TickLength(0, 0)

\* the PPU case of C9, with pixels of the first visible scanline behind it
C9_WitnessPPU ==
    PpuRepeatedRunTo /\ ppu_obs.arg < ppu_obs.prev_arg /\ ppu.pixels > 0

C9_Witness == C9_WitnessAPU \/ C9_WitnessPPU

\* C10: run_to(n) with n beyond the unit's present time ends with the unit's
\* time exactly at the target (APU global_cyc = n, PPU global_cyc = 3n); no
\* operation decreases global_cyc; and within one call the ticks, transfers
\* and $4017 commits of the APU, and the pixel stores, draws and vblank starts
\* of the PPU, happen in non-decreasing cycle order.
C10_RunToReachesTarget ==
    /\ (apu_obs.op = "run_to" /\ apu_obs.arg > apu_obs.pre.global_cyc)
          => apu.global_cyc = apu_obs.arg
    /\ (ppu_obs.op = "run_to" /\ 3 * ppu_obs.arg > ppu_obs.pre.global_cyc)
          => ppu.global_cyc = 3 * ppu_obs.arg
    /\ apu.global_cyc >= apu_obs.pre.global_cyc
    /\ ppu.global_cyc >= ppu_obs.pre.global_cyc
    /\ \A i, j \in LogIdx :
          (i < j /\ apu.log[i].ev \in OrderedKinds /\ apu.log[j].ev \in OrderedKinds)
              => /\ apu.log[i].cyc <= apu.log[j].cyc
                 /\ apu_obs.pre.global_cyc <= apu.log[i].cyc
                 /\ apu.log[j].cyc <= apu.global_cyc
    /\ ppu.ev_ordered
    /\ ppu.ev_last <= ppu.global_cyc

\* one run_to of the APU that went forward and committed a $4017 write,
\* ticked and transferred on the way
C10_WitnessAPU ==
    /\ apu_obs.op = "run_to" /\ apu_obs.arg > apu_obs.pre.global_cyc
    /\ \A k \in OrderedKinds : \E i \in LogIdx : apu.log[i].ev = k

\* one run_to of the PPU that went forward, started a vblank, drew and stored
\* pixels on the way
C10_WitnessPPU ==
    /\ ppu_obs.op = "run_to" /\ 3 * ppu_obs.arg > ppu_obs.pre.global_cyc
    /\ ppu.vblanks > 0
    /\ ppu.draws > ppu_obs.pre.draws
    /\ ppu.pixels > ppu_obs.pre.pixels

C10_Witness == C10_WitnessAPU \/ C10_WitnessPPU

(***************************************************************************)
(* Properties of requested_run_cycle and read_status.                      *)
(***************************************************************************)
\* the cycle requested_run_cycle() reported just before the last call
Reported == requested_run_cycle(apu_obs.pre)

\* the cycle of the first tick of the last call (0 when it had none)
FirstTickCycle ==
    IF TickEvents = {} THEN 0
    ELSE apu.log[CHOOSE i \in TickEvents : \A j \in TickEvents : i <= j].cyc

C12_Original ==
    apu_obs.op = "read_status" =>
        /\ apu.fault = "none"
        /\ apu.global_cyc = Max(apu_obs.pre.global_cyc, apu_obs.arg)

\* What holds of the code: read_status(cycle) with cycle >= 1 completes and
\* leaves global_cyc = max(previous global_cyc, cycle); read_status(0) does
\* not complete.
C12_ReadStatusFromCycle1 ==
    apu_obs.op = "read_status" =>
        /\ apu.fault = "none" <=> apu_obs.arg >= 1
        /\ apu_obs.arg >= 1 =>
              apu.global_cyc = Max(apu_obs.pre.global_cyc, apu_obs.arg)

\* a read_status(0), which did not complete
C12_Witness ==
    apu_obs.op = "read_status" /\ apu_obs.arg = 0 /\ apu.fault # "none"

(***************************************************************************)
(* Properties of the PPU's frame timing.                                   *)
(***************************************************************************)
PH == ppu_obs.hist

PIsOp(i, op, arg) == Len(PH) >= i /\ PH[i].op = op /\ PH[i].arg = arg

\* call i wrote 0x80 to $2000
PEnableNmi(i) == PIsOp(i, "write", 8192) /\ PH[i].val = 128

\* call i read $2002
PReadStat(i) == PIsOp(i, "read", 8194)

Bit7(b) == (b \div 128) % 2 = 1

\* the dot of the first vblank start in a frame other than frame 0, and the
\* first CPU cycle whose run_to executes it
FirstLiveVblankDot == 262 * 341 + 1

FirstNmiCycle == (FirstLiveVblankDot + 2) \div 3

\* C13 as stated: on a fresh PPU, after write(0x2000, 0x80), run_to(27394)
\* returns NMI, the next read of $2002 has bit 7 set and the one after it has
\* bit 7 clear.
C13_Original ==
    (PEnableNmi(1) /\ PIsOp(2, "run_to", 27394)) =>
        /\ PH[2].ret = "NMI"
        /\ PReadStat(3) => Bit7(PH[3].ret)
        /\ (PReadStat(3) /\ PReadStat(4)) => ~Bit7(PH[4].ret)

\* C13, amended: a fresh PPU is at scanline 241 in frame 0, and its first
\* vblank start with frame > 0 is dot 262 * 341 + 1 = 89343, CPU cycle 29781.
\* After write(0x2000, 0x80), run_to(27394) returns Continue and a read of
\* $2002 then has bit 7 clear, run_to(29780) after it returns Continue, and the
\* run_to that reaches 29781 returns NMI; after write(0x2000, 0x80) and
\* run_to(29781) a read of $2002 has bit 7 set and the next read has it clear.
C13_FirstNmiAt29781 ==
    /\ FirstNmiCycle = 29781
    /\ (PEnableNmi(1) /\ PIsOp(2, "run_to", 27394)) =>
          /\ PH[2].ret = "Continue"
          /\ PReadStat(3) => ~Bit7(PH[3].ret)
          /\ PIsOp(3, "run_to", FirstNmiCycle - 1) =>
                /\ PH[3].ret = "Continue"
                /\ PIsOp(4, "run_to", FirstNmiCycle) => PH[4].ret = "NMI"
    /\ (PEnableNmi(1) /\ PIsOp(2, "run_to", FirstNmiCycle)) =>
          /\ PH[2].ret = "NMI"
          /\ PReadStat(3) => Bit7(PH[3].ret)
          /\ (PReadStat(3) /\ PReadStat(4)) => ~Bit7(PH[4].ret)

\* the amended scenario run to its end: write, run_to(29781), two reads
C13_Witness ==
    /\ PEnableNmi(1) /\ PIsOp(2, "run_to", FirstNmiCycle)
    /\ PReadStat(3) /\ PReadStat(4)
    /\ PH[2].ret = "NMI" /\ Bit7(PH[3].ret)

\* C14: run_to of the PPU returns NMI exactly when the call executed a
\* vblank-start dot (cyc = 1, sl = 241) with frame > 0 while bit 7 of ppuctrl
\* was set, and Continue otherwise; at every vblank-start dot with frame > 0
\* the VBLANK bit of ppustat is set, whatever the NMI-enable bit.
C14_NmiIffLiveVblank ==
    ppu_obs.op = "run_to" =>
        /\ ppu_obs.ret = "NMI" <=> (ppu.vb_live > 0 /\ Bit7(ppu_obs.pre.ppuctrl))
        /\ ppu_obs.ret \in {"NMI", "Continue"}
        /\ ppu.vb_stat
        /\ ppu.vb_live > 0 => Bit7(ppu.ppustat)

\* a run_to over the vblank start of frame 1 with the NMI enabled
C14_Witness ==
    /\ ppu_obs.op = "run_to" /\ ppu_obs.ret = "NMI"
    /\ ppu.vb_live = 1 /\ ppu.frame = 1 /\ Bit7(ppu.ppustat)

\* the same with the NMI disabled: VBLANK set, Continue returned
C14_WitnessDisabled ==
    /\ ppu_obs.op = "run_to" /\ ppu_obs.ret = "Continue"
    /\ ppu.vb_live = 1 /\ ~Bit7(ppu_obs.pre.ppuctrl) /\ Bit7(ppu.ppustat)

\* the draws of the last call
DrawsInCall == ppu.draws - ppu_obs.pre.draws

DotsPerFrame == 262 * 341

ClockOrigin == 242 * 341

ClockDots == ppu.global_cyc + ClockOrigin

\* C16: 0 <= cyc <= 340 and -1 <= sl <= 260 always; cyc, sl and frame are the
\* position of global_cyc counted one dot at a time: cyc goes from 340 to 0
\* as sl goes up by one, sl goes from 260 to -1, frame goes up exactly there,
\* and consecutive changes of frame are 262 * 341 dots apart.
C16_ClockInvariant ==
    /\ ppu.cyc \in 0..340
    /\ ppu.sl \in -1..260
    /\ ppu.cyc = ClockDots % 341
    /\ ppu.sl = (ClockDots % DotsPerFrame) \div 341 - 1
    /\ ppu.frame = ClockDots \div DotsPerFrame
    /\ ppu.wraps = ppu.frame
    /\ ppu.wraps > 0 => (ppu.wrap_at + ClockOrigin) % DotsPerFrame = 0
    /\ ppu.wraps > 1 => ppu.wrap_gap = DotsPerFrame

\* the frame counter has gone up twice
C16_Witness ==
    ppu.frame = 2 /\ ppu.wraps = 2 /\ ppu.wrap_gap = DotsPerFrame

(***************************************************************************)
(* Properties of the PPU's register file.                                  *)
(***************************************************************************)
\* the register of the last call on the PPU, and the PPU before that call
PReg == ppu_obs.arg % 8

PPre == ppu_obs.pre

PIsWrite == ppu_obs.op = "write"

PIsRead == ppu_obs.op = "read"

\* $2000, $2001, $2003, $2005, $2006
WriteOnly == {0, 1, 3, 5, 6}

\* C17: every write to a PPU register, $2002 and the mirrors included, sets
\* dyn_latch to the byte written; a read of a write-only register ($2000,
\* $2001, $2003, $2005, $2006 and their mirrors) returns dyn_latch and changes
\* no state.
C17_DynLatch ==
    /\ PIsWrite => ppu.dyn_latch = ppu_obs.val
    /\ (PIsRead /\ PReg \in WriteOnly) =>
          /\ ppu_obs.ret = PPre.dyn_latch
          /\ ppu = PPre

\* a read of the mirror $3FF8 of $2000 right after a write of 0x3F to $2002
C17_Witness ==
    /\ PIsRead /\ PReg \in WriteOnly /\ ppu_obs.arg > 8199
    /\ ppu_obs.prev_op = "write" /\ ppu_obs.prev_arg % 8 = 2
    /\ ppu_obs.ret = 63

\* C18: a read of $2002 returns (ppustat & 0xE0) | (dyn_latch & 0x1F) as they
\* were before the read, then leaves VBLANK clear, the other flags as they
\* were and address_latch = High; a write to $2002 changes dyn_latch only.
C18_StatusRead ==
    /\ (PIsRead /\ PReg = 2) =>
          /\ ppu_obs.ret = (PPre.ppustat \div 32) * 32 + (PPre.dyn_latch % 32)
          /\ ppu = [PPre EXCEPT !.ppustat = PPre.ppustat % 128,
                                !.address_latch = "High"]
    /\ (PIsWrite /\ PReg = 2) =>
          ppu = [PPre EXCEPT !.dyn_latch = ppu_obs.val]

\* a read of $2002 with VBLANK set, latch bits to return and the toggle at Low
C18_Witness ==
    /\ PIsRead /\ PReg = 2
    /\ Bit7(PPre.ppustat) /\ PPre.dyn_latch % 32 # 0 /\ PPre.address_latch = "Low"
    /\ ppu_obs.ret = 128 + 31

\* C19: address_latch is one toggle for $2005 and $2006: at High a write to
\* either stores the byte in the high half of that register's own target and
\* leaves the toggle at Low; at Low it stores the byte in the low half and
\* leaves the toggle at High; the other half and the other register's target
\* stay as they were.
C19_SharedToggle ==
    /\ (PIsWrite /\ PReg = 5) =>
          ppu = [PPre EXCEPT
                   !.dyn_latch = ppu_obs.val,
                   !.address_latch = IF PPre.address_latch = "High" THEN "Low" ELSE "High",
                   !.ppuscroll = IF PPre.address_latch = "High"
                                 THEN (PPre.ppuscroll % 256) + 256 * ppu_obs.val
                                 ELSE (PPre.ppuscroll \div 256) * 256 + ppu_obs.val]
    /\ (PIsWrite /\ PReg = 6) =>
          ppu = [PPre EXCEPT
                   !.dyn_latch = ppu_obs.val,
                   !.address_latch = IF PPre.address_latch = "High" THEN "Low" ELSE "High",
                   !.ppuaddr = IF PPre.address_latch = "High"
                               THEN (PPre.ppuaddr % 256) + 256 * ppu_obs.val
                               ELSE (PPre.ppuaddr \div 256) * 256 + ppu_obs.val]

\* a write to $2006 that found the toggle at Low after a write to $2005 and
\* stored its byte in the low half of ppuaddr
C19_Witness ==
    /\ PIsWrite /\ PReg = 6 /\ PPre.address_latch = "Low"
    /\ ppu_obs.prev_op = "write" /\ ppu_obs.prev_arg % 8 = 5
    /\ ppu.ppuaddr = ppu_obs.val /\ ppu.ppuscroll = 256 * 63
    /\ ppu.address_latch = "High"

\* the registers other than ppuaddr and the latch of the last written byte
OtherRegisters(p) ==
    <<p.ppuctrl, p.ppumask, p.ppustat, p.oamaddr, p.ppuscroll, p.address_latch>>

PpuMemories(p) == <<p.chr, p.vram, p.palette>>

\* ppuaddr stepped by the last call
Stepped ==
    /\ ppu.ppuaddr = (PPre.ppuaddr + (IF BitSet(PPre.ppuctrl, 2) THEN 32 ELSE 1)) % 65536
    /\ OtherRegisters(ppu) = OtherRegisters(PPre)

\* C20 as stated: every read and every write of $2007 accesses the PPU's
\* memory at ppuaddr, then adds 1 (PPUCTRL bit 2 clear) or 32 (set) to ppuaddr
\* with 16-bit wrap-around, and changes no other register.
C20_Original ==
    /\ (PIsRead /\ PReg = 7) =>
          /\ ~ppu.panic
          /\ ppu_obs.ret = PPUMemory_read(PPre, PPre.ppuaddr)
          /\ Stepped
    /\ (PIsWrite /\ PReg = 7) =>
          /\ ~ppu.panic
          /\ PpuMemories(ppu) = PpuMemories(PPUMemory_write(PPre, PPre.ppuaddr, ppu_obs.val))
          /\ Stepped

\* What holds of the code: a read of $2007 with ppuaddr below 0x4000 and a
\* write with ppuaddr below 0x3F20 do as C20 says; a read or write with ppuaddr
\* at 0x4000 or above, and a write with ppuaddr in 0x3F20..0x3FFF, abort
\* before ppuaddr is stepped.
C20_DataPortInRange ==
    /\ (PIsRead /\ PReg = 7) =>
          IF PPre.ppuaddr < 16384
          THEN /\ ~ppu.panic
               /\ ppu_obs.ret = PPUMemory_read(PPre, PPre.ppuaddr)
               /\ Stepped
          ELSE ppu.panic /\ ppu.ppuaddr = PPre.ppuaddr
    /\ (PIsWrite /\ PReg = 7) =>
          IF PPre.ppuaddr < 16160
          THEN /\ ~ppu.panic
               /\ PpuMemories(ppu) =
                      PpuMemories(PPUMemory_write(PPre, PPre.ppuaddr, ppu_obs.val))
               /\ Stepped
          ELSE ppu.panic /\ ppu.ppuaddr = PPre.ppuaddr

\* a read of $2007 with ppuaddr = 0x4000, which aborted
C20_Witness ==
    PIsRead /\ PReg = 7 /\ PPre.ppuaddr >= 16384 /\ ppu.panic

\* a read of $2007 that stepped ppuaddr by 32
C20_WitnessStep32 ==
    PIsRead /\ PReg = 7 /\ ~ppu.panic /\ ppu.ppuaddr = PPre.ppuaddr + 32
(***************************************************************************)
(* The OAM port ($2003, $2004).                                            *)
(***************************************************************************)
\* the byte an OAM cell keeps of v: bits 2..4 of an attribute byte (byte 2 of
\* an entry) are not kept
OamKept(a, v) == IF a % 4 = 2 THEN v - ((v \div 4) % 8) * 4 ELSE v

\* calls i..i+3 of the run: OAMADDR := a, OAMDATA := v, OAMADDR := a, read OAMDATA
OamRoundTrip(i, a, v) ==
    /\ PIsOp(i, "write", 8195) /\ PH[i].val = a
    /\ Len(PH) >= i + 1 /\ PH[i + 1].op = "write" /\ PH[i + 1].arg % 8 = 4
    /\ PH[i + 1].val = v
    /\ PIsOp(i + 2, "write", 8195) /\ PH[i + 2].val = a
    /\ PIsOp(i + 3, "read", 8196)

C21_WitnessAttr ==
    /\ OamRoundTrip(1, 2, 255)
    /\ PH[4].ret = 227

(***************************************************************************)
(* The addresses the register file puts on the PPU's memory bus.           *)
(***************************************************************************)
\* the last call was an access of PPUDATA ($2007 or a mirror), which reads or
\* writes PPUMemory at the ppuaddr it found
BusAccess == (PIsRead \/ PIsWrite) /\ PReg = 7

\* C22 as stated: whatever the reads, writes and run_to calls before it, an
\* access of $2007 puts an address in [0x0000, 0x4000) on the memory bus.
C22_Original == BusAccess => PPre.ppuaddr \in 0..16383

\* the access that C22 excludes: $2007 with ppuaddr = 0x4000, loaded by a write
\* of 0x40 to $2006, ended in the invalid-address abort
C22_AbortReached == BusAccess /\ PPre.ppuaddr = 16384 /\ ppu.panic

(***************************************************************************)
(* The palette of the PPUMemory of ppu/mod.rs, through PPUDATA.            *)
(***************************************************************************)
\* the palette region of the PPU's memory map, [0x3F00, 0x4000)
PaletteRegion == 16128..16383

\* the last call wrote PPUDATA with ppuaddr in the palette region
PaletteWrite == PIsWrite /\ PReg = 7 /\ PPre.ppuaddr \in PaletteRegion

\* C24 as stated: a write of v at an address a of the palette region completes
\* without abort, and a read at every address of the region with the same low
\* five bits as a then returns v & 0x3F.
C24_Original ==
    PaletteWrite =>
        /\ ~ppu.panic
        /\ \A a2 \in PaletteRegion :
              a2 % 32 = PPre.ppuaddr % 32
                  => PPUMemory_read(ppu, a2) = ppu_obs.val % 64

\* the write that C24 excludes: at 0x3F3F, one of the mirrors of palette entry
\* 0x1F above 0x3F1F, it indexed the 32-entry palette at 0x3F and aborted
C24_AbortReached == PaletteWrite /\ PPre.ppuaddr = 16191 /\ ppu.panic

(***************************************************************************)
(* The palette of the PPUMemory of ppu_memory.rs.                          *)
(***************************************************************************)
\* the pairs <<mirror, target>> of palette addresses
MirrorPairs ==
    {<<16144, 16128>>, <<16148, 16132>>, <<16152, 16136>>, <<16156, 16140>>}

\* the last two calls were a write at a1 and a read at a2
WriteThenRead(a1, a2) ==
    /\ mem_obs.op = "read" /\ mem_obs.arg = a2
    /\ mem_obs.prev_op = "write" /\ mem_obs.prev_arg = a1

\* C23: for each pair (mirror, target) and each 6-bit value v, a write of v to
\* either address followed by a read of the other returns v; and after any
\* sequence of writes palette[0x10 + 4k] = palette[4k] for k in 0..3.
C23_PaletteMirroring ==
    /\ \A pr \in MirrorPairs :
          (WriteThenRead(pr[1], pr[2]) \/ WriteThenRead(pr[2], pr[1]))
              /\ mem_obs.prev_val < 64
          => mem_obs.ret = mem_obs.prev_val
    /\ \A k \in 0..3 :
          MemGet(mem.palette, 16 + 4 * k) = MemGet(mem.palette, 4 * k)

\* 0x0C was written to the target 0x3F0C and read from its mirror 0x3F1C,
\* after an earlier write
C23_Witness ==
    /\ WriteThenRead(16140, 16156)
    /\ mem_obs.prev_val = 12 /\ mem_obs.ret = 12
    /\ mem_obs.nops = 3

\* 0x0C was written to the mirror 0x3F10 and read from its target 0x3F00
C23_WitnessMirror ==
    /\ WriteThenRead(16144, 16128)
    /\ mem_obs.prev_val = 12 /\ mem_obs.ret = 12

(***************************************************************************)
(* Nametable mirroring in the PPUMemory of ppu_memory.rs.                  *)
(***************************************************************************)
MirroringMode == mem.cart.mirroring_mode

\* the logical nametable and the offset in it of a VRAM address
TableOf(a) == (a % 4096) \div 1024

OffsetOf(a) == a % 1024

\* the last call wrote address a
WroteAt(a) == mem_obs.op = "write" /\ mem_obs.arg = a

\* what a read of address a returns now, and what it returned before the call
ReadNow(a) == ppu_memory_read(mem, a)

ReadBefore(a) == ppu_memory_read(mem_obs.pre, a)

\* C25: with one-screen mirroring a write to nametable t1 at offset i is
\* returned by a following read of nametable t2 at offset i, for all t1, t2;
\* the translation agrees for every offset in [0, 0x400).
C25_OneScreen ==
    MirroringMode \in {"OneScreenLow", "OneScreenHigh"} =>
        /\ \A a1, a2 \in VramAddrs :
              /\ (WriteThenRead(a1, a2) /\ OffsetOf(a1) = OffsetOf(a2))
                    => mem_obs.ret = mem_obs.prev_val
              /\ (WroteAt(a1) /\ OffsetOf(a1) = OffsetOf(a2))
                    => ReadNow(a2) = mem_obs.val
        /\ mem_obs.nops = 0 =>
              \A i \in 0..1023 : \A t1, t2 \in 0..3 :
                 translate_vram_address(mem, to_nametable_idx(i, t1))
                    = translate_vram_address(mem, to_nametable_idx(i, t2))

\* 0x61 was written to nametable 3 at offset 0x300 over the 0xFF written
\* through nametable 0, and read from nametable 1
C25_Witness ==
    /\ MirroringMode = "OneScreenLow"
    /\ WriteThenRead(to_nametable_idx(768, 3), to_nametable_idx(768, 1))
    /\ mem_obs.prev_val = 97 /\ mem_obs.ret = 97
    /\ ppu_memory_read(mem_obs.pre, to_nametable_idx(768, 0)) = 97
    /\ mem_obs.nops = 3

\* the nametables that share their bytes, as C26 lists them
ClaimedMirrors(mode, t1, t2) ==
    CASE mode = "Horizontal" -> (t1 \div 2) = (t2 \div 2)
      [] mode = "Vertical" -> (t1 % 2) = (t2 % 2)
      [] mode = "FourScreen" -> t1 = t2

\* C26: with horizontal, vertical and four-screen mirroring a write to
\* nametable t1 at offset i is seen by a read of nametable t2 at offset i if and
\* only if t1 and t2 are mirrors (horizontal: 0-1 and 2-3; vertical: 0-2 and
\* 1-3; four-screen: t1 = t2); a read of a nametable that is not a mirror
\* returns what it returned before the write.
C26_Topologies ==
    MirroringMode \in {"Horizontal", "Vertical", "FourScreen"} =>
        /\ \A a1, a2 \in VramAddrs :
              /\ (WriteThenRead(a1, a2) /\ OffsetOf(a1) = OffsetOf(a2)
                    /\ ClaimedMirrors(MirroringMode, TableOf(a1), TableOf(a2)))
                    => mem_obs.ret = mem_obs.prev_val
              /\ (WroteAt(a1) /\ OffsetOf(a1) = OffsetOf(a2)) =>
                    ReadNow(a2) =
                       IF ClaimedMirrors(MirroringMode, TableOf(a1), TableOf(a2))
                       THEN mem_obs.val ELSE ReadBefore(a2)
        /\ mem_obs.nops = 0 =>
              \A i \in 0..1023 : \A t1, t2 \in 0..3 :
                 (translate_vram_address(mem, to_nametable_idx(i, t1))
                    = translate_vram_address(mem, to_nametable_idx(i, t2)))
                 <=> ClaimedMirrors(MirroringMode, t1, t2)

\* horizontal mirroring: nametable 2 held 0x61 at offset 0x300; 0xFF was then
\* written to nametable 0 and showed in nametable 1, not in nametable 2
C26_Witness ==
    /\ MirroringMode = "Horizontal"
    /\ WroteAt(to_nametable_idx(768, 0)) /\ mem_obs.val = 255
    /\ ReadNow(to_nametable_idx(768, 1)) = 255
    /\ ReadBefore(to_nametable_idx(768, 1)) = 0
    /\ ReadNow(to_nametable_idx(768, 2)) = 97

\* four-screen: 0xFF written to nametable 1 at offset 0 and read back, with
\* 0x61 still in nametable 3
C26_WitnessFour ==
    /\ MirroringMode = "FourScreen"
    /\ WriteThenRead(to_nametable_idx(0, 1), to_nametable_idx(0, 1))
    /\ mem_obs.ret = 255
    /\ ReadNow(to_nametable_idx(0, 3)) = 97

\* the addresses of the four logical nametables, [0x2000, 0x3000)
NametableRegion == 8192..12287

\* C27 as stated: the translated index is inside the VRAM, and with
\* four-screen mirroring a write to an address in [0x2000, 0x3000) changes the
\* value read at no other address in [0x2000, 0x3000), whatever the two offsets.
C27_Original ==
    /\ \A a \in VramAddrs : translate_vram_address(mem, a) \in 0..(VramLen - 1)
    /\ MirroringMode = "FourScreen" =>
          \A a1, a2 \in VramAddrs \cap NametableRegion :
             (WroteAt(a1) /\ a1 # a2) => ReadNow(a2) = ReadBefore(a2)

\* the write that C27 excludes: with four-screen mirroring 0x2F00 (nametable
\* 3, offset 0x300) is translated to 0xC00 + 0x300 = 0xF00, which the
\* remainder by the VRAM's length 0xF00 makes 0, the byte of 0x2000
C27_AliasReached ==
    /\ MirroringMode = "FourScreen"
    /\ WroteAt(to_nametable_idx(768, 3))
    /\ mem_obs.val = 255
    /\ ReadBefore(to_nametable_idx(0, 0)) = 0
    /\ ReadNow(to_nametable_idx(0, 0)) = 255

(***************************************************************************)
(* CHR reads and writes through Mapper000.                                 *)
(***************************************************************************)
Cart == mem.cart

CartBefore == mem_obs.pre.cart

HasChrRom == Cart.chr_rom.len > 0

\* the last call was chr_write, or a write of the PPU's memory that the
\* memory handed to chr_write
ChrWritten == mem_obs.op = "chr_write" \/ (mem_obs.op = "write" /\ mem_obs.arg < 8192)

\* the last two calls were chr_write at a1 and chr_read at a2
ChrWriteThenRead(a1, a2) ==
    /\ mem_obs.op = "chr_read" /\ mem_obs.arg = a2
    /\ mem_obs.prev_op = "chr_write" /\ mem_obs.prev_arg = a1

\* C30: with CHR ROM, chr_write leaves the result of every chr_read as it
\* was; without CHR ROM, chr_write(a, v) followed by chr_read(a2) with a and a2
\* equal modulo 0x2000 returns v (and every read at another address modulo
\* 0x2000 returns what it did before); neither call fails at any address.
C30_ChrWrites ==
    /\ ~Cart.panic
    /\ mem_obs.op \in {"chr_read", "read"} => mem_obs.ret \in 0..255
    /\ (ChrWritten /\ HasChrRom) =>
          \A a2 \in ChrAddrs : chr_read(Cart, a2) = chr_read(CartBefore, a2)
    /\ (ChrWritten /\ ~HasChrRom) =>
          \A a2 \in ChrAddrs :
             chr_read(Cart, a2) =
                IF a2 % 8192 = mem_obs.arg % 8192 THEN mem_obs.val
                ELSE chr_read(CartBefore, a2)
    /\ ~HasChrRom =>
          \A a1, a2 \in ChrAddrs :
             (ChrWriteThenRead(a1, a2) /\ a1 % 8192 = a2 % 8192)
                => mem_obs.ret = mem_obs.prev_val

\* CHR RAM: 0x0F written at 0x1612 was read at 0x3612
C30_WitnessRam ==
    /\ ~HasChrRom
    /\ ChrWriteThenRead(5650, 13842)
    /\ mem_obs.prev_val = 15 /\ mem_obs.ret = 15

\* CHR ROM: after a write of 0xFF at 0xC111 the read at 0x8111 returned the
\* byte of the ROM, 0x0111 % 0xFF = 0x12
C30_WitnessRom ==
    /\ HasChrRom /\ Cart.chr_rom.fill = "ramp"
    /\ ChrWriteThenRead(49425, 33041)
    /\ mem_obs.prev_val = 255 /\ mem_obs.ret = 18

(***************************************************************************)
(* The channel registers of the APU.                                       *)
(***************************************************************************)
\* the register of the last write, in 0..31
AReg == apu_obs.arg % 32

AIsWrite == apu_obs.op = "write"

\* the pulse a register in 0..7 belongs to
PulseOf(x) == IF x < 4 THEN "pulse1" ELSE "pulse2"

\* C28 as stated: a write to register 3 of a pulse ($4003 / $4007) loads the
\* length counter and the high bits of the timer, sets the pulse's duty index
\* to 0 and sets the start flag of its envelope.
C28_Original ==
    (AIsWrite /\ AReg \in {3, 7}) =>
        LET c == PulseOf(AReg)
        IN /\ apu.length[c].counter = LENGTH_TABLE[(apu_obs.val \div 8) + 1]
           /\ apu.pulse[c].timer.period \div 256 = apu_obs.val % 8
           /\ apu.pulse[c].duty_index = 0
           /\ apu.pulse[c].envelope.start

\* what the code does instead: the pulse had played to duty index 6 and the
\* write of $4003 left the duty index and the envelope as they were
C28_DutyKept ==
    /\ AIsWrite /\ AReg = 3
    /\ apu_obs.pre.pulse["pulse1"].duty_index = 6
    /\ apu.pulse["pulse1"].duty_index = 6
    /\ apu.pulse["pulse1"].envelope = apu_obs.pre.pulse["pulse1"].envelope
    /\ apu.length["pulse1"].counter = 254

\* the registers whose writes the APU accepts and drops: the DMC's
\* ($4010-$4013), $4014 and $4016
SilentRegisters == 16..20 \cup {22}

\* C29: a write to $4010-$4013, $4014 or $4016 leaves every component of the
\* APU as it was and does not abort.
C29_SilentWrites ==
    (AIsWrite /\ AReg \in SilentRegisters) =>
        /\ apu = apu_obs.pre
        /\ apu.fault = "none"

\* a DMC register was written while the IRQ flag was set and pulse 1 was
\* audible, its length counter clocked down from 254
C29_Witness ==
    /\ AIsWrite /\ AReg = 16 /\ apu_obs.val = 255
    /\ apu.irq_requested
    /\ Length_audible(apu.length["pulse1"]) /\ apu.length["pulse1"].counter < 254

\* $4013 was written while a write of $4017 was pending
C29_WitnessPending ==
    /\ AIsWrite /\ AReg = 19
    /\ apu.jitter.delay

\* $4016 was written after the pulse had played
C29_WitnessPlayed ==
    /\ AIsWrite /\ AReg = 22
    /\ apu.pulse["pulse1"].duty_index = 6

(***************************************************************************)
(* Properties of the PPU of ppu.rs.                                        *)
(***************************************************************************)
\* the last call wrote $2005 or $2006 (or a mirror)
RsAddrWrite == ppu_rs_obs.op = "write" /\ ppu_rs_obs.arg % 8 \in {5, 6}

\* the register that the last call wrote, in the PPU p
RsTarget(p) == IF ppu_rs_obs.arg % 8 = 5 THEN p.ppuscroll ELSE p.ppuaddr

\* C31: in the PPU of ppu.rs, the first write of $2005 or $2006 made since the
\* address latch was set to First (by PPU::new, by a read of $2002 or by the
\* assignment of the tests) replaces the high byte of the register it
\* addresses and keeps its low byte; every later write of $2005 or $2006,
\* until the latch is set to First again, replaces the low byte and keeps the
\* high byte.
C31_LowByteUntilReset ==
    RsAddrWrite =>
        /\ ppu_rs.address_latch = "Second"
        /\ IF ppu_rs_obs.pre_since = 0
           THEN RsTarget(ppu_rs) =
                    ppu_rs_obs.val * 256 + (RsTarget(ppu_rs_obs.pre) % 256)
           ELSE RsTarget(ppu_rs) =
                    (RsTarget(ppu_rs_obs.pre) \div 256) * 256 + ppu_rs_obs.val

\* the three writes of the test have been made: 0xDE, 0xAD, 0xED give 0xDEED
C31_Witness ==
    /\ RsAddrWrite /\ ppu_rs_obs.pre_since = 2
    /\ ppu_rs_obs.val = 237
    /\ RsTarget(ppu_rs_obs.pre) = 57005
    /\ RsTarget(ppu_rs) = 57069

\* the last step of the test: after the reset, 0xAD replaces the high byte
C31_WitnessReset ==
    /\ RsAddrWrite /\ ppu_rs_obs.pre_since = 0
    /\ ppu_rs_obs.nops = 5
    /\ RsTarget(ppu_rs_obs.pre) = 57069
    /\ RsTarget(ppu_rs) = 44525

(***************************************************************************)
(* Properties of the frame register and of the schedules of the APU.       *)
(***************************************************************************)
\* the APU before the last call
APre == apu_obs.pre

\* the last call wrote $4017 on an even cycle: the write commits in the call
CommitAtWrite ==
    apu_obs.op = "write" /\ apu_obs.arg % 32 = 23 /\ APre.global_cyc % 2 = 0

\* the last call ran the APU exactly to the target of a pending $4017 write
CommitAtTarget ==
    apu_obs.op = "run_to" /\ APre.jitter.delay /\ apu_obs.arg = APre.jitter.time

\* the byte that the last call committed
Committed == IF CommitAtWrite THEN apu_obs.val ELSE APre.jitter.val

\* the "commit" entries of the record of the last call
CommitEvents == {i \in LogIdx : apu.log[i].ev = "commit"}

\* C32: a $4017 write commits at the write when global_cyc is even and at the
\* delay target otherwise; when it commits at cycle g, Frame is the byte with
\* bits 5..0 cleared, irq_requested is FALSE if bit 6 of the byte is set and
\* as it was otherwise, tick is 0, next_tick_cyc is g + 7459 when bit 7 is
\* clear and g + 1 when it is set, and no $4017 write is pending.
C32_CommitEffects ==
    /\ (CommitAtWrite \/ CommitAtTarget) =>
          /\ apu.frame = (Committed \div 64) * 64
          /\ apu.irq_requested =
                IF (Committed \div 64) % 2 = 1 THEN FALSE ELSE APre.irq_requested
          /\ apu.tick = 0
          /\ apu.next_tick_cyc =
                apu.global_cyc + (IF Committed \div 128 = 1 THEN 1 ELSE 7459)
          /\ ~apu.jitter.delay
          /\ \E i \in CommitEvents :
                apu.log[i].cyc = apu.global_cyc /\ apu.log[i].x = Committed
    \* a write on an odd cycle commits nothing in the call and is pending
    /\ (apu_obs.op = "write" /\ apu_obs.arg % 32 = 23 /\ APre.global_cyc % 2 = 1) =>
          /\ CommitEvents = {}
          /\ apu.jitter = JitterDelay(APre.global_cyc + 1, apu_obs.val)
          /\ apu.frame = APre.frame /\ apu.tick = APre.tick
          /\ apu.next_tick_cyc = APre.next_tick_cyc
          /\ apu.irq_requested = APre.irq_requested
    \* a run over the delay target commits once, at the target
    /\ (apu_obs.op = "run_to" /\ APre.jitter.delay /\ apu_obs.arg >= APre.jitter.time) =>
          /\ ~apu.jitter.delay
          /\ Cardinality(CommitEvents) = 1
          /\ \A i \in CommitEvents :
                apu.log[i].cyc = APre.jitter.time /\ apu.log[i].x = APre.jitter.val

\* a delayed write of a byte with bit 6 clear has committed while the IRQ flag
\* was set, and the flag is still set
C32_Witness ==
    /\ CommitAtTarget /\ Committed = 191
    /\ APre.irq_requested /\ apu.irq_requested
    /\ apu.frame = 128 /\ apu.next_tick_cyc = apu.global_cyc + 1

\* an immediate write of a byte with bit 6 set has cleared the IRQ flag
C32_WitnessClear ==
    /\ CommitAtWrite /\ Committed = 127
    /\ APre.irq_requested /\ ~apu.irq_requested
    /\ apu.frame = 64 /\ apu.next_tick_cyc = apu.global_cyc + 7459

\* the cycles of the ticks of the 5-step sequence, counted from the first
Mode1Offsets == <<0, 7458, 14914, 22372, 29830>>

\* the cycle of the k-th tick after a commit of the 5-step mode at cycle g
Mode1TickCycle(g, k) == g + 1 + ((k - 1) \div 5) * 37282 + Mode1Offsets[((k - 1) % 5) + 1]

\* The last call was a run_to over a stretch that a commit of the 5-step mode
\* starts: the commit was made in the call (a delayed write), or by the write
\* before the call.  CommitCycle is the cycle of that commit and AfterCommit
\* the ticks of the call that follow it.
Mode1CommitInCall == \E i \in CommitEvents : apu.log[i].x \div 128 = 1

Mode1CommitBefore ==
    /\ CommitEvents = {} /\ ~APre.jitter.delay
    /\ apu_obs.prev_op = "write" /\ apu_obs.prev_arg % 32 = 23
    /\ Frame_mode(APre.frame) = 1

Mode1Run == apu_obs.op = "run_to" /\ (Mode1CommitInCall \/ Mode1CommitBefore)

CommitCycle ==
    IF Mode1CommitInCall THEN apu.log[CHOOSE i \in CommitEvents : TRUE].cyc
    ELSE APre.global_cyc

AfterCommit ==
    IF Mode1CommitInCall THEN {i \in TickEvents : \A j \in CommitEvents : i > j}
    ELSE TickEvents

\* the position of tick event i among the ticks after the commit
TickRank(i) == Cardinality({j \in AfterCommit : j <= i})

\* C33: after a $4017 write selecting mode 1 commits at cycle g, the first
\* tick fires at g + 1 and clocks the envelopes and the length counters and
\* sweeps; ticks 2 to 5 fire 7458, 7456, 7458 and 7458 cycles after the one
\* before, and the five ticks repeat every 37282 cycles; no tick is missing.
C33_Mode1Schedule ==
    Mode1Run =>
        /\ \A i \in AfterCommit :
              /\ apu.log[i].x = ((TickRank(i) - 1) % 5) + 1
              /\ apu.log[i].cyc = Mode1TickCycle(CommitCycle, TickRank(i))
              /\ apu.log[i].y.mode = 1
              /\ TickRank(i) = 1 => (apu.log[i].y.env = 1 /\ apu.log[i].y.len = 1)
        /\ \A k \in 1..12 :
              Mode1TickCycle(CommitCycle, k) <= apu.global_cyc
                  => Cardinality(AfterCommit) >= k

\* a delayed write of mode 1 committed in the call, and two whole sequences
\* and the first tick of the third followed
C33_Witness ==
    /\ Mode1Run /\ Mode1CommitInCall
    /\ Cardinality(AfterCommit) = 11
    /\ \E i \in AfterCommit :
          TickRank(i) = 11 /\ apu.log[i].x = 1
              /\ apu.log[i].cyc = CommitCycle + 1 + 2 * 37282

\* the same after a write that committed at once
C33_WitnessImmediate ==
    /\ Mode1Run /\ Mode1CommitBefore
    /\ Cardinality(AfterCommit) = 11

\* the entries of the record of the last call for the intervals forwarded to
\* the channels and for the buffer's end_frame
PlayEvents == {i \in LogIdx : apu.log[i].ev = "play"}

TransferEvents == {i \in LogIdx : apu.log[i].ev = "transfer"}

\* the transfers of the call that follow entry i
TransfersAfter(i) == {j \in TransferEvents : j > i}

\* the cycle count that the end_frame closing the interval of entry i is
\* given: that of the next transfer of the call or, when the call has none,
\* that of the transfer still to come, which is made at next_transfer_cyc
ClosingCount(i) ==
    IF TransfersAfter(i) # {}
    THEN apu.log[CHOOSE j \in TransfersAfter(i) : \A k \in TransfersAfter(i) : j <= k].x
    ELSE apu.next_transfer_cyc - apu.last_frame_cyc

\* the origin of the buffer's frame that the transfer of entry j ends
OriginBefore(j) ==
    LET before == {k \in TransferEvents : k < j}
    IN IF before = {} THEN APre.last_frame_cyc
       ELSE apu.log[CHOOSE k \in before : \A m \in before : m <= k].cyc

\* C34: last_frame_cyc <= global_cyc <= next_transfer_cyc always; every
\* interval forwarded to the channels has 0 <= from <= to <= the cycle count
\* of the end_frame that closes it; every end_frame is preceded, in the same
\* iteration, by the play that ends at its cycle; a transfer at cycle g passes
\* g - last_frame_cyc to end_frame, sets last_frame_cyc to g and
\* next_transfer_cyc to g + clocks_needed().
C34_TransferSchedule ==
    /\ apu.last_frame_cyc <= apu.global_cyc
    /\ apu.global_cyc <= apu.next_transfer_cyc
    /\ \A i \in PlayEvents :
          /\ 0 <= apu.log[i].x /\ apu.log[i].x <= apu.log[i].y
          /\ apu.log[i].y <= ClosingCount(i)
    /\ \A j \in TransferEvents :
          /\ apu.log[j].x = apu.log[j].cyc - OriginBefore(j)
          /\ \E i \in PlayEvents :
                /\ i < j /\ apu.log[i].y = apu.log[j].x
                /\ \A k \in (i + 1)..(j - 1) : apu.log[k].ev \in {"tick", "commit"}
          /\ IF TransfersAfter(j) = {}
             THEN /\ apu.last_frame_cyc = apu.log[j].cyc
                  /\ apu.next_transfer_cyc = apu.log[j].cyc + apu.clocks_needed
             ELSE \E k \in TransfersAfter(j) :
                     /\ apu.log[k].cyc = apu.log[j].cyc + apu.clocks_needed
                     /\ \A m \in TransfersAfter(j) : k <= m

\* a call that made several transfers after the APU had been left between two
\* transfers
C34_Witness ==
    /\ Cardinality(TransferEvents) >= 2
    /\ APre.last_frame_cyc > 0 /\ APre.global_cyc > APre.last_frame_cyc
    /\ \E i \in PlayEvents : apu.log[i].x > 0 /\ apu.log[i].y > apu.log[i].x

\* a transfer on the cycle of a tick
C34_WitnessTick ==
    \E j \in TransferEvents : j > 1 /\ apu.log[j - 1].ev = "tick"

\* the same with the smaller buffer, whose transfers fall between the ticks
C34_WitnessSmall ==
    /\ apu.clocks_needed = ClocksNeededSmall
    /\ Cardinality(TransferEvents) >= 5
    /\ Cardinality(TickEvents) >= 4

(***************************************************************************)
(* Properties of the visible scanlines.                                    *)
(***************************************************************************)
\* the last call ran at least one dot; the last of them is (ppu.cyc, ppu.sl)
LastDotRan == ppu_obs.op = "run_to" /\ ppu.global_cyc > ppu_obs.pre.global_cyc

\* the last dot of the call stored a pixel
LastDotStored == LastDotRan /\ ppu.ev_last = ppu.global_cyc /\ ppu.sl \in 0..239

\* C35 as stated: the dot (cyc, sl) of a visible scanline with cyc in 1..256
\* stores the pixel of x = cyc - 1 at index sl * 256 + (cyc - 1); the dots with
\* cyc = 0 or cyc > 256 and those of the other scanlines store nothing.
C35_Original ==
    LastDotRan =>
        IF ppu.sl \in 0..239 /\ ppu.cyc \in 1..256
        THEN LastDotStored /\ ppu.last_pixel[1] = ppu.sl * 256 + (ppu.cyc - 1)
        ELSE ~LastDotStored

\* what the code does: the dots with cyc in 0..255 store, at sl * 256 + cyc
C35_StoreAtCyc ==
    LastDotRan =>
        IF ppu.sl \in 0..239 /\ ppu.cyc \in 0..255
        THEN LastDotStored /\ ppu.last_pixel[1] = ppu.sl * 256 + ppu.cyc
        ELSE ~LastDotStored

\* dot 0 of scanline 0 has stored the pixel of index 0
C35_DotZeroReached ==
    LastDotStored /\ ppu.cyc = 0 /\ ppu.sl = 0 /\ ppu.last_pixel[1] = 0

\* dot 256 of scanline 1 has stored nothing
C35_Dot256Reached == LastDotRan /\ ~LastDotStored /\ ppu.cyc = 256 /\ ppu.sl = 1

\* C36 as stated: the background of the pixel (sx, sy) is sampled at
\* x = sx + (ppuscroll >> 8), y = sy + (ppuscroll & 0xFF).
C36_Original ==
    LastDotStored =>
        ppu.last_sample =
            <<(ppu.last_pixel[1] % 256) + (ppu.ppuscroll \div 256),
              (ppu.last_pixel[1] \div 256) + (ppu.ppuscroll % 256)>>

\* what the code does: one is added to x when the high byte of ppuscroll is
\* not zero and to y when the low byte is not zero
C36_ScrollAsFlags ==
    LastDotStored =>
        ppu.last_sample =
            <<(ppu.last_pixel[1] % 256) + (IF ppu.ppuscroll \div 256 > 0 THEN 1 ELSE 0),
              (ppu.last_pixel[1] \div 256) + (IF ppu.ppuscroll % 256 > 0 THEN 1 ELSE 0)>>

\* a pixel has been sampled with a scroll of 5 in x and 8 in y
C36_ScrolledReached == LastDotStored /\ ppu.ppuscroll = 1288

(***************************************************************************)
(* Properties of the pulse channels.                                       *)
(***************************************************************************)
\* the last call was a run_to that forwarded one interval to the channels and
\* did nothing else; PFrom and PTo are its ends as Pulse::play was given them
PlayOnce == apu_obs.op = "run_to" /\ Len(apu.log) = 1 /\ apu.log[1].ev = "play"

PFrom == apu.log[1].x

PTo == apu.log[1].y

\* pulse c before the call, and whether it was audible
PulsePre(c) == APre.pulse[c]

WasAudible(c) == APre.length[c].counter > 0 /\ APre.length[c].enabled

\* the Clock events of the timer of pulse c in the interval
Clocks(c) == Timer_clocks(PulsePre(c).timer, PFrom, PTo)

\* the entry of PULSE_DUTY_CYCLES that the j-th Clock event looks up, if every
\* event advances the index by one
StepAt(c, j) ==
    PULSE_DUTY_CYCLES[PulsePre(c).duty + 1][((PulsePre(c).duty_index + j) % 8) + 1]

\* the events, among those whose deltas are kept, that record a delta
Edges(c) == {j \in 1..Min(Clocks(c), MaxDeltas) : StepAt(c, j) # 0}

\* the deltas recorded up to the n-th Clock event
DeltasUpTo(c, n) ==
    {i \in 1..Len(apu.pulse[c].deltas) :
        apu.pulse[c].deltas[i][2] <= Timer_clock_cyc(PulsePre(c).timer, PFrom, n)}

\* C37: in Pulse::play of an audible pulse every Clock event of the timer
\* advances duty_index by one modulo 8, and records a delta only when the duty
\* table's entry at the new index is not zero: the envelope's volume for 1 and
\* 0 for -1, at the cycle of the event; 8 consecutive events record two
\* deltas, one rise and one fall.  For a pulse that is not audible play
\* records amplitude 0 at from_cyc and leaves duty_index as it was.
C37_DutySequencer ==
    PlayOnce =>
        \A c \in Pulses :
            IF WasAudible(c)
            THEN /\ apu.pulse[c].duty_index = (PulsePre(c).duty_index + Clocks(c)) % 8
                 /\ apu.pulse[c].duty_index \in 0..7
                 /\ Len(apu.pulse[c].deltas) = Cardinality(Edges(c))
                 /\ \A j \in Edges(c) :
                       \E i \in 1..Len(apu.pulse[c].deltas) :
                           apu.pulse[c].deltas[i] =
                               <<IF StepAt(c, j) = 1
                                 THEN Envelope_volume(PulsePre(c).envelope) ELSE 0,
                                 Timer_clock_cyc(PulsePre(c).timer, PFrom, j)>>
                 /\ Clocks(c) >= 8 =>
                       /\ Cardinality(DeltasUpTo(c, 8)) = 2
                       /\ \E i, k \in DeltasUpTo(c, 8) :
                             /\ apu.pulse[c].deltas[i][1] =
                                    Envelope_volume(PulsePre(c).envelope)
                             /\ apu.pulse[c].deltas[k][1] = 0
                             /\ i # k
            ELSE /\ apu.pulse[c].deltas = << <<0, PFrom>> >>
                 /\ apu.pulse[c].duty_index = PulsePre(c).duty_index

\* pulse 1, audible at volume 15 with the inverted duty, has played 8 Clock
\* events from a duty index that was not 0, and pulse 2 was silent
C37_Witness ==
    /\ PlayOnce /\ WasAudible("pulse1") /\ ~WasAudible("pulse2")
    /\ Clocks("pulse1") = 8
    /\ PulsePre("pulse1").duty = 3 /\ PulsePre("pulse1").duty_index # 0
    /\ Envelope_volume(PulsePre("pulse1").envelope) = 15
    /\ apu.pulse["pulse1"].duty_index = PulsePre("pulse1").duty_index
    /\ Len(apu.pulse["pulse1"].deltas) = 2

\* the same with a Clock event every 4 cycles
C37_WitnessSlow ==
    /\ PlayOnce /\ WasAudible("pulse1")
    /\ Timer_wavelen(PulsePre("pulse1").timer) = 4
    /\ Clocks("pulse1") \in 1..7
    /\ Len(apu.pulse["pulse1"].deltas) = 1

(***************************************************************************)
(* Invariants of the frame sequencer.                                      *)
(***************************************************************************)
\* C38: a pending $4017 write has the target global_cyc + 1 and global_cyc is
\* odd; every commit falls on an even cycle; next_tick_cyc is odd; so no
\* commit falls on the cycle of a tick, made or scheduled.
C38_Parity ==
    /\ apu.jitter.delay =>
          (apu.jitter.time = apu.global_cyc + 1 /\ apu.global_cyc % 2 = 1)
    /\ apu.next_tick_cyc % 2 = 1
    /\ \A i \in CommitEvents :
          /\ apu.log[i].cyc % 2 = 0
          /\ APre.next_tick_cyc # apu.log[i].cyc
          /\ \A j \in TickEvents : apu.log[j].cyc # apu.log[i].cyc
    /\ \A j \in TickEvents : apu.log[j].cyc % 2 = 1

\* a delayed write has committed in a call that also ticked
C38_Witness ==
    /\ apu_obs.op \in {"run_to", "read_status"} /\ APre.jitter.delay
    /\ CommitEvents # {} /\ TickEvents # {}

\* a write is pending on the cycle of the first tick
C38_WitnessPending == apu.jitter.delay /\ apu.tick = 1 /\ apu.global_cyc = 7459

\* C39: between calls tick is in 0..3 in mode 0 and in 0..4 in mode 1; every
\* tick reads NTSC_TICK_LENGTH_TABLE at an index in 1..4 (mode 0) or 1..5
\* (mode 1), never the zero entry [0][5]; next_tick_cyc > global_cyc.
C39_TickIndex ==
    /\ apu.tick \in 0..(IF Frame_mode(apu.frame) = 0 THEN 3 ELSE 4)
    /\ \A i \in TickEvents :
          /\ apu.log[i].x \in 1..(IF apu.log[i].y.mode = 0 THEN 4 ELSE 5)
          /\ NTSC_TICK_LENGTH_TABLE[apu.log[i].y.mode + 1][apu.log[i].x + 1] > 0
    /\ apu.next_tick_cyc > apu.global_cyc

\* the last index of either mode has been read, and the APU rests at tick 4
\* of mode 1 after a change of mode
C39_Witness ==
    /\ Frame_mode(apu.frame) = 1 /\ apu.tick = 4 /\ apu_obs.w4017
    /\ \E i \in TickEvents : apu.log[i].x = 4 /\ apu.log[i].y.mode = 1

C39_WitnessMode0 ==
    /\ Frame_mode(apu.frame) = 0 /\ apu.tick = 0
    /\ \E i \in TickEvents : apu.log[i].x = 4 /\ apu.log[i].y.mode = 0
    /\ apu.next_tick_cyc = apu.global_cyc + 7458

C39_WitnessTick5 ==
    \E i \in TickEvents : apu.log[i].x = 5 /\ apu.log[i].y.mode = 1

(***************************************************************************)
(* Properties of the VBLANK flag.                                          *)
(***************************************************************************)
\* the last call read $2002 or a mirror of it
ReadOfStatus == ppu_obs.op = "read" /\ ppu_obs.arg % 8 = 2

\* C40: once VBLANK is set it stays set over every run_to, through the
\* pre-render scanline and the visible scanlines that follow, and over every
\* access to a register but a read of $2002, which alone clears it.
C40_VblankUntilRead ==
    /\ (BitSet(ppu_obs.pre.ppustat, 7) /\ ~ReadOfStatus) => BitSet(ppu.ppustat, 7)
    /\ (BitSet(ppu_obs.pre.ppustat, 7) /\ ReadOfStatus) => ~BitSet(ppu.ppustat, 7)

\* a run_to from the vblank of frame 1 over the pre-render scanline into
\* scanline 0 of frame 2 has left VBLANK set
C40_Witness ==
    /\ ppu_obs.op = "run_to" /\ BitSet(ppu_obs.pre.ppustat, 7)
    /\ ppu_obs.pre.sl >= 241 /\ ppu_obs.pre.frame = 1
    /\ ppu.sl = 0 /\ ppu.frame = 2
    /\ BitSet(ppu.ppustat, 7)

\* a write of $2002 and a read of $2007 have left it set
C40_WitnessAccess ==
    /\ BitSet(ppu.ppustat, 7)
    /\ ppu_obs.op = "read" /\ ppu_obs.arg = 8199
    /\ ppu_obs.prev_op = "write" /\ ppu_obs.prev_arg = 8194

\* a read of the mirror $200A has cleared it
C40_WitnessCleared ==
    /\ BitSet(ppu_obs.pre.ppustat, 7) /\ ~BitSet(ppu.ppustat, 7)
    /\ ppu_obs.op = "read" /\ ppu_obs.arg = 8202

====
